--------------------------- MODULE RequestsProofs ---------------------------
(* Proofs about Requests: answers, traces and lists, for any requests.       *)
EXTENDS Requests, TLAPS

\* The handlers that may be left to a request in the chain.
Suffixes ==
    {<<"plain">>, <<"noRoute">>, <<"handler">>, <<"authn", "handler">>,
     <<"authz", "handler">>, <<"authn", "authz", "handler">>}

\* No request writes to the message of a shared value or holds one of another.
MessagesOwn ==
    /\ \A e \in Shared : errors[e].message = "stock"
    /\ \A r \in Requests : raised[r].message \in {"stock", "success", r}

Before == {"new", "chain", "validate", "work", "write"}

\* Where a request is tells whether it has been answered.
AnswerOf(r) ==
    /\ at[r] \in Before => bodies[r] = <<>> /\ status[r] = 0 /\ r \notin panicked
    /\ at[r] \in Before \ {"new"} => route[r] # "preflight"
    /\ at[r] = "chain" => rest[r] \in Suffixes
    /\ at[r] \notin Before =>
        IF route[r] = "preflight" \/ r \in panicked
        THEN /\ bodies[r] = <<>>
             /\ route[r] = "preflight" \/ at[r] = "over" => status[r] # 0
        ELSE Len(bodies[r]) = 1

AnswerInv == \A r \in Requests : AnswerOf(r)

\* A span puts its header before the answer and is ended with the request.
TraceOf(r) ==
    /\ at[r] = "new" => span[r] = "none"
    /\ span[r] # "none" => "X-Trace-Id" \in headers[r]
    /\ at[r] = "over" =>
        /\ span[r] # "open"
        /\ logged[r] = status[r] \/ r \in panicked \/ route[r] \in {"preflight", "metrics"}
    /\ status[r] # 0 /\ span[r] # "none" => "X-Trace-Id" \in sent[r]

TraceInv == \A r \in Requests : TraceOf(r)

\* While the client stays, every user waits, is converted or is stored.
FanOutInv ==
    /\ ~cancelled => waiting \cup running \cup stored = Users
    /\ list # "launch" => waiting = {}
    /\ list \in {"load", "ok", "panic"} => running = {}
    /\ list = "ok" => loaded = Users
    /\ list = "panic" => cancelled

IInv == TypeOK /\ MessagesOwn /\ AnswersAreOwn /\ AnswerInv /\ TraceInv /\ FanOutInv

-----------------------------------------------------------------------------
Handlers == {"plain", "noRoute", "authn", "authz", "handler"}

LEMMA SuffixFacts ==
    ASSUME NEW s \in Suffixes
    PROVE  /\ Head(s) = "plain" => Tail(s) = <<>>
           /\ Head(s) \in {"authn", "authz"} => Tail(s) \in Suffixes /\ Tail(s) # <<>>
           /\ s \in Seq(Handlers)
    <1>1. CASE s \in {<<"plain">>, <<"noRoute">>, <<"handler">>}
        <2>1. \A h \in Handlers : Tail(<<h>>) = <<>> /\ Head(<<h>>) = h /\ <<h>> \in Seq(Handlers)
            OBVIOUS
        <2> QED BY <1>1, <2>1 DEF Handlers
    <1>2. CASE s \in {<<"authn", "handler">>, <<"authz", "handler">>}
        <2>1. \A g, h \in Handlers : /\ Tail(<<g, h>>) = <<h>> /\ Head(<<g, h>>) = g
                                    /\ <<g, h>> \in Seq(Handlers) /\ <<h>> # <<>>
            OBVIOUS
        <2> QED BY <1>2, <2>1 DEF Handlers, Suffixes
    <1>3. CASE s = <<"authn", "authz", "handler">>
        <2>1. \A f, g, h \in Handlers : /\ Tail(<<f, g, h>>) = <<g, h>> /\ Head(<<f, g, h>>) = f
                                       /\ <<f, g, h>> \in Seq(Handlers) /\ <<g, h>> # <<>>
            OBVIOUS
        <2> QED BY <1>3, <2>1 DEF Handlers, Suffixes
    <1> QED BY <1>1, <1>2, <1>3 DEF Suffixes

LEMMA ChainFacts ==
    ASSUME NEW x \in DOMAIN Chain
    PROVE  /\ x # "preflight" => Chain[x] \in Suffixes
           /\ Chain[x] \in Seq(Handlers)
    <1>1. CASE x = "preflight"
        BY <1>1 DEF Chain
    <1>2. CASE x # "preflight"
        <2>1. Chain[x] \in Suffixes
            BY <1>2 DEF Chain, Suffixes
        <2> QED BY <2>1, SuffixFacts
    <1> QED BY <1>1, <1>2

LEMMA HTTPCodes ==
    ASSUME NEW code \in Nat
    PROVE  GetHTTPCode(code) \in {200, 500, 502}
    BY DEF GetHTTPCode

LEMMA CodesNat == \A e \in Shared : Codes[e] \in Nat
    BY DEF Codes, Shared

\* The answer made of an error of a request's own carries no other's message.
LEMMA FromErrorOwn ==
    ASSUME IInv, NEW r \in Requests
    PROVE  /\ FromError(raised[r]) \in [code : Nat, message : Message]
           /\ FromError(raised[r]).message \in {"stock", "success", r}
    <1>1. /\ raised[r] \in Raised
          /\ raised[r].message \in {"stock", "success", r}
        BY DEF IInv, TypeOK, MessagesOwn
    <1>2. CASE raised[r].of \in Shared
        <2>1. errors[raised[r].of].message = "stock"
            BY <1>2 DEF IInv, MessagesOwn
        <2>2. Codes[raised[r].of] \in Nat
            BY <1>2, CodesNat
        <2>3. FromError(raised[r]) = [code |-> Codes[raised[r].of], message |-> "stock"]
            BY <1>2, <2>1 DEF FromError
        <2>4. "stock" \in Message
            BY DEF Message
        <2> QED BY <2>2, <2>3, <2>4
    <1>3. CASE raised[r].of \notin Shared
        <2>1. FromError(raised[r]) = [code |-> raised[r].code, message |-> raised[r].message]
            BY <1>3 DEF FromError
        <2>2. raised[r].code \in Nat /\ raised[r].message \in Message
            BY <1>1 DEF Raised
        <2> QED BY <1>1, <2>1, <2>2
    <1> QED BY <1>2, <1>3

LEMMA EmptyFacts == DOMAIN <<>> = {} /\ Len(<<>>) = 0 /\ \A S : <<>> \in Seq(S)
    OBVIOUS

LEMMA InitKeeps == Init => IInv
    <1> SUFFICES ASSUME Init PROVE IInv
        OBVIOUS
    <1> USE DEF Init
    <1>1. TypeOK
        <2>1. NoError \in Raised /\ "stock" \in Message
            BY DEF NoError, Raised, Message
        <2>2. ListTypeOK
            BY DEF ListInit, ListTypeOK
        <2>3. /\ rest \in [Requests -> Seq({"plain", "noRoute", "authn", "authz", "handler"})]
              /\ bodies \in [Requests -> Seq([code : Nat, message : Message])]
            BY EmptyFacts
        <2>4. errors \in [Shared -> [message : Message, details : {"", "stock"} \cup Requests]]
            BY <2>1
        <2>5. raised \in [Requests -> Raised]
            BY <2>1
        <2>6. /\ tracing \in BOOLEAN
              /\ at \in [Requests -> {"new", "chain", "validate", "work", "write", "unwind", "over"}]
              /\ route \in [Requests -> DOMAIN Chain]
              /\ panicked \in SUBSET Requests
            OBVIOUS
        <2>7. /\ headers \in [Requests -> SUBSET Header]
              /\ sent \in [Requests -> SUBSET Header]
              /\ status \in [Requests -> {0, 200, 500, 502}]
              /\ span \in [Requests -> {"none", "open", "ended"}]
              /\ logged \in [Requests -> {0, 200, 500, 502}]
            OBVIOUS
        <2> HIDE DEF Init
        <2> QED BY <2>2, <2>3, <2>4, <2>5, <2>6, <2>7 DEF TypeOK
    <1>2. MessagesOwn
        BY DEF MessagesOwn, NoError
    <1>6. AnswersAreOwn
        BY EmptyFacts DEF AnswersAreOwn
    <1>3. AnswerInv
        BY DEF AnswerInv, AnswerOf, Before
    <1>4. TraceInv
        BY DEF TraceInv, TraceOf
    <1>5. FanOutInv
        BY DEF FanOutInv, ListInit
    <1> QED BY <1>1, <1>2, <1>3, <1>4, <1>5, <1>6 DEF IInv

-----------------------------------------------------------------------------
(* Steps that only move a request on and give it an error.                   *)

ErrorsOK ==
    /\ errors \in [Shared -> [message : Message, details : {"", "stock"} \cup Requests]]
    /\ raised \in [Requests -> Raised]
    /\ MessagesOwn

LEMMA RaiseKeeps ==
    ASSUME ErrorsOK, NEW r \in Requests, NEW e \in Raised, e.message \in {"stock", "success", r},
           Raise(r, e)
    PROVE  ErrorsOK'
    BY DEF ErrorsOK, Raise, MessagesOwn

LEMMA RaisedFacts ==
    /\ NoError \in Raised /\ NoError.message = "success"
    /\ \A e \in Shared : Pointer(e) \in Raised /\ Pointer(e).message = "stock"
    /\ \A c \in Nat, m \in Message : Own(c, m) \in Raised /\ Own(c, m).message = m
    /\ Requests \cup {"stock"} \subseteq Message
    BY DEF NoError, Raised, Message, Pointer, Own

LEMMA SharedNames ==
    {"ErrTokenInvalid", "ErrUnauthenticated", "ErrPermissionDenied", "ErrBind",
     "ErrInvalidArgument", "ErrUsernameInvalid", "ErrUserNotFound", "ErrUserAlreadyExists",
     "ErrPasswordInvalid", "ErrSignToken", "ErrPageNotFound"} = Shared
    BY DEF Shared, Codes

LEMMA WithMessageKeeps ==
    ASSUME ErrorsOK, NEW r \in Requests, NEW e \in Shared, WithMessage(r, e)
    PROVE  ErrorsOK'
    <1>1. Own(Codes[e], r) \in Raised /\ Own(Codes[e], r).message = r
        BY CodesNat, RaisedFacts
    <1> QED BY <1>1, RaiseKeeps DEF WithMessage

LEMMA WithDetailsKeeps ==
    ASSUME ErrorsOK, NEW r \in Requests, NEW e \in Shared, WithDetails(r, e)
    PROVE  ErrorsOK'
    <1>1. Pointer(e) \in Raised /\ Pointer(e).message = "stock"
        BY RaisedFacts
    <1>2. errors' \in [Shared -> [message : Message, details : {"", "stock"} \cup Requests]]
          /\ \A x \in Shared : errors'[x].message = errors[x].message
        BY DEF ErrorsOK, WithDetails
    <1> QED BY <1>1, <1>2 DEF ErrorsOK, WithDetails, MessagesOwn

\* A step before the answer that moves request r to x and leaves it unanswered.
LEMMA MoveKeepsInv ==
    ASSUME IInv, NEW r \in Requests, at[r] \in Before \ {"new"},
           NEW x \in Before \ {"new"}, at' = [at EXCEPT ![r] = x],
           ErrorsOK',
           \/ rest' = rest /\ x # "chain"
           \/ rest' = [rest EXCEPT ![r] = Tail(@)] /\ Tail(rest[r]) \in Suffixes,
           Constant, UNCHANGED <<answerVars, listVars>>
    PROVE  IInv'
    <1> USE DEF IInv, Constant, answerVars, listVars
    <1>1. TypeOK'
        <2>1. rest' \in [Requests -> Seq(Handlers)]
            <3>1. rest \in [Requests -> Seq(Handlers)]
                BY DEF TypeOK, Handlers
            <3>2. CASE Tail(rest[r]) \in Suffixes /\ rest' = [rest EXCEPT ![r] = Tail(@)]
                <4>1. Tail(rest[r]) \in Seq(Handlers)
                    BY <3>2, SuffixFacts
                <4> QED BY <3>1, <3>2, <4>1
            <3> QED BY <3>1, <3>2
        <2>2. at' \in [Requests -> {"new", "chain", "validate", "work", "write", "unwind", "over"}]
            BY DEF TypeOK, Before
        <2> QED BY <2>1, <2>2 DEF TypeOK, ListTypeOK, ErrorsOK, Handlers
    <1>2. MessagesOwn' /\ AnswersAreOwn'
        BY DEF ErrorsOK, AnswersAreOwn
    <1>0. /\ \A q \in Requests : at'[q] = IF q = r THEN x ELSE at[q]
          /\ \A q \in Requests : q # r => rest'[q] = rest[q]
          /\ x = "chain" => rest'[r] \in Suffixes
        <2>1. at \in [Requests -> {"new", "chain", "validate", "work", "write", "unwind", "over"}]
              /\ rest \in [Requests -> Seq(Handlers)]
            BY DEF TypeOK, Handlers
        <2> HIDE DEF IInv
        <2>2. CASE rest' = rest /\ x # "chain"
            BY <2>1, <2>2
        <2>3. CASE rest' = [rest EXCEPT ![r] = Tail(@)] /\ Tail(rest[r]) \in Suffixes
            BY <2>1, <2>3
        <2> QED BY <2>2, <2>3
    <1>6. /\ \A q \in Requests : AnswerOf(q) /\ TraceOf(q)
          /\ UNCHANGED <<bodies, status, panicked, route, span, headers, logged, sent>>
        BY DEF AnswerInv, TraceInv
    <1>7. x \in Before /\ x # "over" /\ x # "new" /\ at[r] \in Before /\ at[r] # "new"
        BY DEF Before
    <1>3. AnswerInv'
        <2> HIDE DEF IInv
        <2> SUFFICES ASSUME NEW q \in Requests PROVE AnswerOf(q)'
            BY DEF AnswerInv
        <2>1. CASE q = r
            BY <1>0, <1>6, <1>7, <2>1 DEF AnswerOf
        <2>2. CASE q # r
            BY <1>0, <1>6, <2>2 DEF AnswerOf
        <2> QED BY <2>1, <2>2
    <1>4. TraceInv'
        <2> HIDE DEF IInv
        <2> SUFFICES ASSUME NEW q \in Requests PROVE TraceOf(q)'
            BY DEF TraceInv
        <2> QED BY <1>0, <1>6, <1>7 DEF TraceOf
    <1>5. FanOutInv'
        BY DEF FanOutInv
    <1> QED BY <1>1, <1>2, <1>3, <1>4, <1>5

LEMMA NoRouteKeepsInv ==
    ASSUME IInv, NEW r \in Requests, NoRoute(r)
    PROVE  IInv'
    <1>1. ErrorsOK'
        BY RaiseKeeps, RaisedFacts, SharedNames DEF NoRoute, ErrorsOK, IInv, TypeOK
    <1> QED BY <1>1, MoveKeepsInv DEF NoRoute, Before

LEMMA CheckKeepsInv ==
    ASSUME IInv, NEW r \in Requests, Check(r)
    PROVE  IInv'
    <1>1. ErrorsOK
        BY DEF ErrorsOK, IInv, TypeOK
    <1>2. CASE Proceed(r) /\ UNCHANGED <<errors, raised>>
        <2>1. ErrorsOK'
            BY <1>1, <1>2 DEF ErrorsOK, MessagesOwn
        <2>2. Tail(rest[r]) \in Suffixes /\ Tail(rest[r]) # <<>>
            BY SuffixFacts DEF Check, IInv, AnswerInv, AnswerOf
        <2> QED BY <1>2, <2>1, <2>2, MoveKeepsInv DEF Check, Proceed, Before
    <1>3. CASE ~(Proceed(r) /\ UNCHANGED <<errors, raised>>)
        <2>1. PICK e \in Shared : WithMessage(r, e)
            BY <1>3, SharedNames DEF Check
        <2>2. ErrorsOK'
            BY <1>1, <2>1, WithMessageKeeps
        <2> QED BY <1>3, <2>2, MoveKeepsInv DEF Check, Before
    <1> QED BY <1>2, <1>3

LEMMA BindKeepsInv ==
    ASSUME IInv, NEW r \in Requests, Bind(r)
    PROVE  IInv'
    <1>1. ErrorsOK
        BY DEF ErrorsOK, IInv, TypeOK
    <1>2. ErrorsOK'
        <2>1. CASE WithDetails(r, "ErrBind")
            BY <1>1, <2>1, WithDetailsKeeps, SharedNames
        <2>2. CASE UNCHANGED <<errors, raised>>
            BY <1>1, <2>2 DEF ErrorsOK, MessagesOwn
        <2> QED BY <2>1, <2>2 DEF Bind
    <1>3. PICK x \in {"write", "work", "validate"} : at' = [at EXCEPT ![r] = x]
        BY DEF Bind
    <1> QED BY <1>2, <1>3, MoveKeepsInv DEF Bind, Before

LEMMA ValidateKeepsInv ==
    ASSUME IInv, NEW r \in Requests, Validate(r)
    PROVE  IInv'
    <1>1. ErrorsOK
        BY DEF ErrorsOK, IInv, TypeOK
    <1>2. ErrorsOK'
        <2>1. CASE WithMessage(r, "ErrInvalidArgument") \/ WithMessage(r, "ErrPermissionDenied")
            BY <1>1, <2>1, WithMessageKeeps, SharedNames
        <2>2. CASE Raise(r, Pointer("ErrUsernameInvalid"))
            BY <1>1, <2>2, RaiseKeeps, RaisedFacts, SharedNames
        <2>3. CASE UNCHANGED <<errors, raised>>
            BY <1>1, <2>3 DEF ErrorsOK, MessagesOwn
        <2> QED BY <2>1, <2>2, <2>3 DEF Validate
    <1>3. PICK x \in {"write", "work"} : at' = [at EXCEPT ![r] = x]
        BY DEF Validate
    <1>4. rest' = rest /\ Constant /\ UNCHANGED <<answerVars, listVars>> /\ at[r] = "validate"
        BY DEF Validate
    <1> QED BY <1>2, <1>3, <1>4, MoveKeepsInv DEF Before

LEMMA WorkKeepsInv ==
    ASSUME IInv, NEW r \in Requests, Work(r)
    PROVE  IInv'
    <1>1. ErrorsOK
        BY DEF ErrorsOK, IInv, TypeOK
    <1>2. \A c \in {20101, 20103, 11001, 10101} : c \in Nat
        OBVIOUS
    <1>3. ErrorsOK'
        <2>1. CASE Raise(r, NoError)
            BY <1>1, <2>1, RaiseKeeps, RaisedFacts
        <2>2. ASSUME NEW e \in Shared, Raise(r, Pointer(e)) PROVE ErrorsOK'
            BY <1>1, <2>2, RaiseKeeps, RaisedFacts
        <2>3. ASSUME NEW c \in {20101, 20103, 11001}, Raise(r, Own(c, "stock")) PROVE ErrorsOK'
            BY <1>1, <1>2, <2>3, RaiseKeeps, RaisedFacts
        <2>4. CASE Raise(r, Own(10101, r))
            BY <1>1, <1>2, <2>4, RaiseKeeps, RaisedFacts
        <2>5. CASE \E e \in Shared : <<route[r], e>> \in BizErrors /\ Raise(r, Pointer(e))
            BY <2>2, <2>5
        <2>6. CASE \E c \in {20101, 20103, 11001} : Raise(r, Own(c, "stock"))
            BY <2>3, <2>6
        <2> QED BY <2>1, <2>4, <2>5, <2>6 DEF Work
    <1>4. /\ at[r] = "work" /\ at' = [at EXCEPT ![r] = "write"] /\ rest' = rest
          /\ Constant /\ UNCHANGED <<answerVars, listVars>>
        BY DEF Work
    <1> QED BY <1>3, <1>4, MoveKeepsInv DEF Before

-----------------------------------------------------------------------------
(* Steps that answer.                                                        *)

LEMMA ErrorsStay ==
    ASSUME ErrorsOK, UNCHANGED <<errors, raised>>
    PROVE  ErrorsOK'
    BY DEF ErrorsOK, MessagesOwn

LEMMA ListTypeStays ==
    ASSUME ListTypeOK, UNCHANGED listVars
    PROVE  ListTypeOK'
    BY DEF ListTypeOK, listVars

LEMMA TracingStays ==
    ASSUME tracing \in BOOLEAN, UNCHANGED tracing
    PROVE  tracing' \in BOOLEAN
    OBVIOUS

\* The step that answers request r with body, once, and sends its headers.
LEMMA RespondKeepsInv ==
    ASSUME IInv, NEW r \in Requests, at[r] \in {"chain", "write"},
           NEW body \in [code : Nat, message : Message],
           body.message \in {"stock", "success", r}, Respond(r, body),
           at' = [at EXCEPT ![r] = "unwind"],
           rest' \in [Requests -> Seq(Handlers)],
           \A q \in Requests : q # r => rest'[q] = rest[q],
           Constant, UNCHANGED <<errors, raised, listVars>>
    PROVE  IInv'
    <1>1. at[r] \in Before \ {"new"} /\ "unwind" \notin Before
        BY DEF Before
    <1>2. \A q \in Requests : AnswerOf(q) /\ TraceOf(q)
        BY DEF IInv, AnswerInv, TraceInv
    <1>3. bodies[r] = <<>> /\ status[r] = 0 /\ r \notin panicked /\ route[r] # "preflight"
        BY <1>1, <1>2 DEF AnswerOf
    <1>4. /\ at \in [Requests -> {"new", "chain", "validate", "work", "write", "unwind", "over"}]
          /\ bodies \in [Requests -> Seq([code : Nat, message : Message])]
          /\ headers \in [Requests -> SUBSET Header]
          /\ sent \in [Requests -> SUBSET Header]
          /\ status \in [Requests -> {0, 200, 500, 502}]
        BY DEF IInv, TypeOK
    <1>5. PICK code \in {200, 500, 502} : status' = [status EXCEPT ![r] = code]
        BY <1>3, HTTPCodes DEF Respond, WriteHeader
    <1>6. sent' = [sent EXCEPT ![r] = headers[r]]
        BY <1>3 DEF Respond, WriteHeader, Constant
    <1>7. bodies' = [bodies EXCEPT ![r] = <<body>>]
        <2>1. Append(bodies[r], body) = <<body>>
            BY <1>3
        <2> QED BY <2>1 DEF Respond
    <1>8. /\ <<body>> \in Seq([code : Nat, message : Message])
          /\ Len(<<body>>) = 1 /\ DOMAIN <<body>> = {1} /\ <<body>>[1] = body
        OBVIOUS
    <1>9. TypeOK'
        <2>1. bodies' \in [Requests -> Seq([code : Nat, message : Message])]
            BY <1>4, <1>7, <1>8
        <2>2. sent' \in [Requests -> SUBSET Header]
            BY <1>4, <1>6
        <2>3. status' \in [Requests -> {0, 200, 500, 502}]
            BY <1>4, <1>5
        <2>4. at' \in [Requests -> {"new", "chain", "validate", "work", "write", "unwind", "over"}]
            BY <1>4
        <2>6. TypeOK
            BY DEF IInv
        <2>7. UNCHANGED <<tracing, errors, route, raised, panicked, headers, span, logged>>
            BY DEF Constant
        <2>8. ListTypeOK'
            BY <2>6, ListTypeStays DEF TypeOK
        <2>9. ErrorsOK'
            <3>1. ErrorsOK /\ UNCHANGED <<errors, raised>>
                BY <2>6 DEF ErrorsOK, TypeOK, IInv
            <3> QED BY <3>1, ErrorsStay
        <2>10. tracing' \in BOOLEAN
            BY <2>6, <2>7, TracingStays DEF TypeOK
        <2>11. panicked' \in SUBSET Requests
            BY <2>6, <2>7 DEF TypeOK
        <2>12. route' \in [Requests -> DOMAIN Chain] /\ headers' \in [Requests -> SUBSET Header]
            BY <2>6, <2>7 DEF TypeOK
        <2>13. /\ span' \in [Requests -> {"none", "open", "ended"}]
               /\ logged' \in [Requests -> {0, 200, 500, 502}]
            BY <2>6, <2>7 DEF TypeOK
        <2> QED BY <2>1, <2>2, <2>3, <2>4, <2>8, <2>9, <2>10, <2>11, <2>12, <2>13
               DEF TypeOK, Handlers, ErrorsOK
    <1>10. MessagesOwn'
        BY DEF IInv, MessagesOwn
    <1>11. AnswersAreOwn'
        <2> SUFFICES ASSUME NEW q \in Requests, NEW i \in DOMAIN bodies'[q]
                     PROVE  bodies'[q][i].message \in {"stock", "success", q}
            BY DEF AnswersAreOwn
        <2>1. CASE q = r
            <3>1. bodies'[q] = <<body>>
                BY <1>4, <1>7, <2>1
            <3>2. i = 1
                BY <1>8, <3>1
            <3> QED BY <1>8, <2>1, <3>1, <3>2
        <2>2. CASE q # r
            BY <1>4, <1>7, <2>2 DEF IInv, AnswersAreOwn
        <2> QED BY <2>1, <2>2
    <1>12. AnswerInv'
        <2> SUFFICES ASSUME NEW q \in Requests PROVE AnswerOf(q)'
            BY DEF AnswerInv
        <2>1. CASE q = r
            <3>1. /\ at'[q] = "unwind" /\ bodies'[q] = <<body>>
                  /\ panicked' = panicked /\ route' = route
                BY <1>4, <1>7, <2>1 DEF Constant
            <3> QED BY <1>1, <1>3, <1>8, <2>1, <3>1 DEF AnswerOf
        <2>2. CASE q # r
            <3>1. /\ at'[q] = at[q] /\ bodies'[q] = bodies[q] /\ status'[q] = status[q]
                  /\ panicked' = panicked /\ route' = route /\ rest'[q] = rest[q]
                BY <1>4, <1>5, <1>7, <2>2 DEF Constant
            <3> QED BY <1>2, <3>1 DEF AnswerOf
        <2> QED BY <2>1, <2>2
    <1>13. TraceInv'
        <2> SUFFICES ASSUME NEW q \in Requests PROVE TraceOf(q)'
            BY DEF TraceInv
        <2>1. UNCHANGED <<span, headers, logged, panicked, route>>
            BY DEF Constant
        <2>2. CASE q = r
            BY <1>2, <1>4, <1>6, <2>1, <2>2 DEF TraceOf
        <2>3. CASE q # r
            BY <1>2, <1>4, <1>5, <1>6, <2>1, <2>3 DEF TraceOf
        <2> QED BY <2>2, <2>3
    <1>14. FanOutInv'
        BY DEF IInv, FanOutInv, Constant, listVars
    <1> QED BY <1>9, <1>10, <1>11, <1>12, <1>13, <1>14 DEF IInv

LEMMA PlainKeepsInv ==
    ASSUME IInv, NEW r \in Requests, Plain(r)
    PROVE  IInv'
    <1>1. rest[r] \in Suffixes /\ at[r] = "chain"
        BY DEF IInv, AnswerInv, AnswerOf, Plain
    <1>2. Tail(rest[r]) = <<>>
        BY <1>1, SuffixFacts DEF Plain
    <1>3. at' = [at EXCEPT ![r] = "unwind"] /\ rest' = [rest EXCEPT ![r] = <<>>]
        BY <1>2 DEF Plain, Proceed
    <1>4. rest \in [Requests -> Seq(Handlers)]
        BY DEF IInv, TypeOK, Handlers
    <1>5. rest' \in [Requests -> Seq(Handlers)] /\ \A q \in Requests : q # r => rest'[q] = rest[q]
        BY <1>3, <1>4, EmptyFacts
    <1>6. [code |-> 0, message |-> "success"] \in [code : Nat, message : Message]
        BY DEF Message
    <1> DEFINE body == [code |-> 0, message |-> "success"]
    <1>7. body.message = "success" /\ Respond(r, body) /\ Constant /\ UNCHANGED <<errors, raised, listVars>>
        BY DEF Plain
    <1> HIDE DEF body
    <1> QED BY <1>1, <1>3, <1>5, <1>6, <1>7, RespondKeepsInv DEF body

LEMMA WriteKeepsInv ==
    ASSUME IInv, NEW r \in Requests, Write(r)
    PROVE  IInv'
    <1>1. at' = [at EXCEPT ![r] = "unwind"] /\ rest' = [rest EXCEPT ![r] = <<>>]
        BY DEF Write, Abort
    <1>2. rest \in [Requests -> Seq(Handlers)]
        BY DEF IInv, TypeOK, Handlers
    <1>3. rest' \in [Requests -> Seq(Handlers)] /\ \A q \in Requests : q # r => rest'[q] = rest[q]
        BY <1>1, <1>2, EmptyFacts
    <1> DEFINE body == FromError(raised[r])
    <1>4. body \in [code : Nat, message : Message] /\ body.message \in {"stock", "success", r}
        BY FromErrorOwn
    <1>5. /\ at[r] = "write" /\ Respond(r, body) /\ Constant
          /\ UNCHANGED <<errors, raised, listVars>>
        BY DEF Write
    <1> HIDE DEF body
    <1> QED BY <1>1, <1>3, <1>4, <1>5, RespondKeepsInv

-----------------------------------------------------------------------------
(* The two ends of the chain.                                                *)

LEMMA ArriveKeepsInv ==
    ASSUME IInv, NEW r \in Requests, Arrive(r)
    PROVE  IInv'
    <1>0. /\ at \in [Requests -> {"new", "chain", "validate", "work", "write", "unwind", "over"}]
          /\ span \in [Requests -> {"none", "open", "ended"}]
          /\ headers \in [Requests -> SUBSET Header] /\ sent \in [Requests -> SUBSET Header]
          /\ status \in [Requests -> {0, 200, 500, 502}] /\ logged \in [Requests -> {0, 200, 500, 502}]
        BY DEF IInv, TypeOK
    <1>1. TypeOK /\ \A q \in Requests : AnswerOf(q) /\ TraceOf(q)
        BY DEF IInv, AnswerInv, TraceInv
    <1>2. at[r] = "new" /\ bodies[r] = <<>> /\ status[r] = 0 /\ r \notin panicked
        BY <1>1 DEF Arrive, AnswerOf, Before
    <1>3. UNCHANGED <<tracing, errors, route, raised, panicked, bodies, logged, listVars>>
        BY DEF Arrive
    <1>4. /\ at' \in [Requests -> {"new", "chain", "validate", "work", "write", "unwind", "over"}]
          /\ at'[r] = (IF route[r] = "preflight" THEN "unwind" ELSE "chain")
          /\ \A q \in Requests : q # r => at'[q] = at[q]
        BY <1>0 DEF Arrive
    <1>5. /\ rest' \in [Requests -> Seq(Handlers)]
          /\ rest'[r] = Chain[route[r]]
          /\ \A q \in Requests : q # r => rest'[q] = rest[q]
        <2>1. route[r] \in DOMAIN Chain /\ rest \in [Requests -> Seq(Handlers)]
            BY <1>1 DEF TypeOK, Handlers
        <2>2. Chain[route[r]] \in Seq(Handlers)
            BY <2>1, ChainFacts
        <2> QED BY <2>1, <2>2 DEF Arrive
    <1>6. /\ span' \in [Requests -> {"none", "open", "ended"}]
          /\ span'[r] \in {"none", "open"}
          /\ route[r] = "preflight" => span'[r] = "none"
          /\ \A q \in Requests : q # r => span'[q] = span[q]
        BY <1>0 DEF Arrive
    <1>7. /\ headers' \in [Requests -> SUBSET Header]
          /\ span'[r] # "none" => "X-Trace-Id" \in headers'[r]
          /\ \A q \in Requests : q # r => headers'[q] = headers[q]
        <2> DEFINE H == {"Cache-Control"} \cup IF route[r] = "preflight" THEN {"Allow"}
                                               ELSE {"X-Frame-Options"} \cup Inject(span'[r] = "open")
        <2>1. headers' = [headers EXCEPT ![r] = H]
            BY DEF Arrive
        <2>2. H \in SUBSET Header
            BY DEF Header, Inject
        <2>3. span'[r] # "none" => "X-Trace-Id" \in H
            BY <1>6 DEF Inject
        <2> HIDE DEF H
        <2> QED BY <1>0, <2>1, <2>2, <2>3
    <1>8. /\ status' \in [Requests -> {0, 200, 500, 502}]
          /\ sent' \in [Requests -> SUBSET Header]
          /\ \A q \in Requests : q # r => status'[q] = status[q] /\ sent'[q] = sent[q]
          /\ IF route[r] = "preflight" THEN status'[r] = 200 ELSE status'[r] = 0
        <2>1. CASE route[r] = "preflight"
            <3>1. status' = [status EXCEPT ![r] = 200] /\ sent' = [sent EXCEPT ![r] = headers'[r]]
                BY <1>2, <2>1 DEF Arrive, WriteHeader
            <3> QED BY <1>0, <1>7, <2>1, <3>1
        <2>2. CASE route[r] # "preflight"
            BY <1>0, <1>2, <2>2 DEF Arrive
        <2> QED BY <2>1, <2>2
    <1>9. TypeOK'
        <2>1. ListTypeOK'
            BY <1>1, <1>3, ListTypeStays DEF TypeOK
        <2>2. tracing' \in BOOLEAN
            BY <1>1, <1>3, TracingStays DEF TypeOK
        <2>3. ErrorsOK'
            BY <1>1, <1>3, ErrorsStay DEF ErrorsOK, TypeOK, IInv
        <2>4. /\ panicked' \in SUBSET Requests
              /\ route' \in [Requests -> DOMAIN Chain]
              /\ bodies' \in [Requests -> Seq([code : Nat, message : Message])]
              /\ logged' \in [Requests -> {0, 200, 500, 502}]
            BY <1>1, <1>3 DEF TypeOK
        <2> QED BY <1>4, <1>5, <1>6, <1>7, <1>8, <2>1, <2>2, <2>3, <2>4 DEF TypeOK, ErrorsOK, Handlers
    <1>10. MessagesOwn' /\ AnswersAreOwn'
        BY <1>3 DEF IInv, MessagesOwn, AnswersAreOwn
    <1>11. AnswerInv'
        <2> SUFFICES ASSUME NEW q \in Requests PROVE AnswerOf(q)'
            BY DEF AnswerInv
        <2>1. CASE q = r
            <3>1. route[r] # "preflight" => rest'[r] \in Suffixes
                BY <1>1, <1>5, ChainFacts DEF TypeOK
            <3> QED BY <1>2, <1>3, <1>4, <1>8, <2>1, <3>1 DEF AnswerOf, Before
        <2>2. CASE q # r
            BY <1>1, <1>3, <1>4, <1>5, <1>8, <2>2 DEF AnswerOf
        <2> QED BY <2>1, <2>2
    <1>12. TraceInv'
        <2> SUFFICES ASSUME NEW q \in Requests PROVE TraceOf(q)'
            BY DEF TraceInv
        <2>1. CASE q = r
            BY <1>4, <1>6, <1>7, <1>8, <2>1 DEF TraceOf
        <2>2. CASE q # r
            BY <1>1, <1>3, <1>4, <1>6, <1>7, <1>8, <2>2 DEF TraceOf
        <2> QED BY <2>1, <2>2
    <1>13. FanOutInv'
        BY <1>3 DEF IInv, FanOutInv, listVars
    <1> QED BY <1>9, <1>10, <1>11, <1>12, <1>13 DEF IInv

LEMMA UnwindKeepsInv ==
    ASSUME IInv, NEW r \in Requests, Unwind(r)
    PROVE  IInv'
    <1>0. /\ at \in [Requests -> {"new", "chain", "validate", "work", "write", "unwind", "over"}]
          /\ span \in [Requests -> {"none", "open", "ended"}]
          /\ headers \in [Requests -> SUBSET Header] /\ sent \in [Requests -> SUBSET Header]
          /\ status \in [Requests -> {0, 200, 500, 502}] /\ logged \in [Requests -> {0, 200, 500, 502}]
        BY DEF IInv, TypeOK
    <1>1. TypeOK /\ \A q \in Requests : AnswerOf(q) /\ TraceOf(q)
        BY DEF IInv, AnswerInv, TraceInv
    <1>2. UNCHANGED <<tracing, errors, route, rest, raised, panicked, headers, bodies, listVars>>
        BY DEF Unwind
    <1>3. /\ at[r] = "unwind"
          /\ at' \in [Requests -> {"new", "chain", "validate", "work", "write", "unwind", "over"}]
          /\ at'[r] = "over"
          /\ \A q \in Requests : q # r => at'[q] = at[q]
        BY <1>0 DEF Unwind
    <1>4. /\ status' \in [Requests -> {0, 200, 500, 502}]
          /\ sent' \in [Requests -> SUBSET Header]
          /\ \A q \in Requests : q # r => status'[q] = status[q] /\ sent'[q] = sent[q]
          /\ status[r] = 0 /\ status'[r] # 0 => sent'[r] = headers[r]
          /\ status[r] # 0 => status'[r] = status[r] /\ sent'[r] = sent[r]
          /\ r \in panicked => status'[r] # 0
          /\ r \notin panicked => status' = status /\ sent' = sent
        <2>1. CASE r \in panicked /\ status[r] = 0
            <3>1. status' = [status EXCEPT ![r] = 500] /\ sent' = [sent EXCEPT ![r] = headers[r]]
                BY <1>2, <2>1 DEF Unwind, WriteHeader
            <3> QED BY <1>0, <2>1, <3>1
        <2>2. CASE ~(r \in panicked /\ status[r] = 0)
            <3>1. status' = status /\ sent' = sent
                BY <2>2 DEF Unwind, WriteHeader
            <3> QED BY <1>0, <2>2, <3>1
        <2> QED BY <2>1, <2>2
    <1>5. /\ logged' \in [Requests -> {0, 200, 500, 502}]
          /\ logged'[r] = status[r] \/ r \in panicked \/ route[r] \in {"preflight", "metrics"}
          /\ \A q \in Requests : q # r => logged'[q] = logged[q]
        BY <1>0 DEF Unwind
    <1>6. /\ span' \in [Requests -> {"none", "open", "ended"}]
          /\ span'[r] # "open"
          /\ span[r] = "none" <=> span'[r] = "none"
          /\ \A q \in Requests : q # r => span'[q] = span[q]
        BY <1>0 DEF Unwind
    <1>7. TypeOK'
        <2>1. ListTypeOK'
            BY <1>1, <1>2, ListTypeStays DEF TypeOK
        <2>2. tracing' \in BOOLEAN
            BY <1>1, <1>2, TracingStays DEF TypeOK
        <2>3. ErrorsOK'
            BY <1>1, <1>2, ErrorsStay DEF ErrorsOK, TypeOK, IInv
        <2>4. /\ panicked' \in SUBSET Requests
              /\ route' \in [Requests -> DOMAIN Chain]
              /\ rest' \in [Requests -> Seq(Handlers)]
              /\ bodies' \in [Requests -> Seq([code : Nat, message : Message])]
              /\ headers' \in [Requests -> SUBSET Header]
            BY <1>1, <1>2 DEF TypeOK, Handlers
        <2> QED BY <1>3, <1>4, <1>5, <1>6, <2>1, <2>2, <2>3, <2>4 DEF TypeOK, ErrorsOK, Handlers
    <1>8. MessagesOwn' /\ AnswersAreOwn'
        BY <1>2 DEF IInv, MessagesOwn, AnswersAreOwn
    <1>9. AnswerInv'
        <2> SUFFICES ASSUME NEW q \in Requests PROVE AnswerOf(q)'
            BY DEF AnswerInv
        <2>1. CASE q = r
            BY <1>1, <1>2, <1>3, <1>4, <2>1 DEF AnswerOf, Before
        <2>2. CASE q # r
            BY <1>1, <1>2, <1>3, <1>4, <2>2 DEF AnswerOf
        <2> QED BY <2>1, <2>2
    <1>10. TraceInv'
        <2> SUFFICES ASSUME NEW q \in Requests PROVE TraceOf(q)'
            BY DEF TraceInv
        <2>1. CASE q = r
            BY <1>1, <1>2, <1>3, <1>4, <1>5, <1>6, <2>1 DEF TraceOf
        <2>2. CASE q # r
            BY <1>1, <1>2, <1>3, <1>4, <1>5, <1>6, <2>2 DEF TraceOf
        <2> QED BY <2>1, <2>2
    <1>11. FanOutInv'
        BY <1>2 DEF IInv, FanOutInv, listVars
    <1> QED BY <1>7, <1>8, <1>9, <1>10, <1>11 DEF IInv

-----------------------------------------------------------------------------
(* The list.                                                                 *)

LEMMA FanOutKeeps ==
    ASSUME ListTypeOK, FanOutInv,
           Go \/ Launched \/ Wait \/ Load \/ Cancel \/ \E u \in Users : Convert(u)
    PROVE  ListTypeOK' /\ FanOutInv' /\ (cancelled => cancelled')
    <1>1. CASE Go
        BY <1>1 DEF Go, ListTypeOK, FanOutInv
    <1>2. CASE Launched
        BY <1>2 DEF Launched, ListTypeOK, FanOutInv
    <1>3. CASE Wait
        BY <1>3 DEF Wait, ListTypeOK, FanOutInv
    <1>4. CASE Load
        BY <1>4 DEF Load, ListTypeOK, FanOutInv
    <1>5. CASE Cancel
        BY <1>5 DEF Cancel, ListTypeOK, FanOutInv
    <1>6. CASE \E u \in Users : Convert(u)
        BY <1>6 DEF Convert, ListTypeOK, FanOutInv
    <1> QED BY <1>1, <1>2, <1>3, <1>4, <1>5, <1>6

\* A goroutine of the fan-out, or the client leaving, touches no request.
LEMMA BesideKeepsInv ==
    ASSUME IInv, Cancel \/ \E u \in Users : Convert(u), UNCHANGED chainVars
    PROVE  IInv'
    <1>1. ListTypeOK' /\ FanOutInv' /\ (cancelled => cancelled')
        BY FanOutKeeps DEF IInv, TypeOK
    <1>2. UNCHANGED <<tracing, errors, at, route, rest, raised, panicked, headers, sent, status, bodies, span, logged>>
        BY DEF chainVars, answerVars
    <1>3. TypeOK'
        BY <1>1, <1>2 DEF IInv, TypeOK
    <1>4. MessagesOwn' /\ AnswersAreOwn'
        BY <1>2 DEF IInv, MessagesOwn, AnswersAreOwn
    <1>5. AnswerInv' /\ TraceInv'
        BY <1>2 DEF IInv, AnswerInv, AnswerOf, TraceInv, TraceOf
    <1>6. FanOutInv'
        BY <1>1, <1>2 DEF IInv
    <1> QED BY <1>3, <1>4, <1>5, <1>6 DEF IInv

LEMMA ListingKeepsInv ==
    ASSUME IInv, Listing
    PROVE  IInv'
    <1>1. TypeOK /\ \A q \in Requests : AnswerOf(q) /\ TraceOf(q)
        BY DEF IInv, AnswerInv, TraceInv
    <1>2. UNCHANGED <<tracing, errors, route, rest, raised, headers, sent, status, bodies, span, logged>>
        BY DEF Listing, answerVars
    <1>3. ListTypeOK' /\ FanOutInv' /\ (cancelled => cancelled')
        BY FanOutKeeps DEF IInv, TypeOK, Listing
    <1>4. /\ at \in [Requests -> {"new", "chain", "validate", "work", "write", "unwind", "over"}]
          /\ at[Lister] = "work" /\ route[Lister] = "list" /\ Lister \in Requests
        BY <1>1, ListerAssumption DEF Listing, TypeOK
    <1>5. \/ UNCHANGED <<at, panicked>>
          \/ at' = [at EXCEPT ![Lister] = "write"] /\ panicked' = panicked
          \/ /\ at' = [at EXCEPT ![Lister] = "unwind"] /\ panicked' = panicked \cup {Lister}
             /\ list' = "panic"
        BY DEF Listing
    <1>6. panicked' \in SUBSET Requests /\ \A q \in Requests \ {Lister} :
            at'[q] = at[q] /\ (q \in panicked' <=> q \in panicked)
        <2>1. panicked \in SUBSET Requests
            BY <1>1 DEF TypeOK
        <2> QED BY <1>4, <1>5, <2>1
    <1>7. TypeOK'
        <2>1. at' \in [Requests -> {"new", "chain", "validate", "work", "write", "unwind", "over"}]
            BY <1>4, <1>5
        <2> QED BY <1>1, <1>2, <1>3, <1>6, <2>1 DEF TypeOK
    <1>8. MessagesOwn' /\ AnswersAreOwn'
        BY <1>2 DEF IInv, MessagesOwn, AnswersAreOwn
    <1>9. AnswerInv'
        <2> SUFFICES ASSUME NEW q \in Requests PROVE AnswerOf(q)'
            BY DEF AnswerInv
        <2>1. CASE q = Lister
            <3>1. bodies[q] = <<>> /\ status[q] = 0 /\ q \notin panicked
                BY <1>1, <1>4, <2>1 DEF AnswerOf, Before
            <3> QED BY <1>2, <1>4, <1>5, <2>1, <3>1 DEF AnswerOf, Before
        <2>2. CASE q # Lister
            BY <1>1, <1>2, <1>6, <2>2 DEF AnswerOf
        <2> QED BY <2>1, <2>2
    <1>10. TraceInv'
        <2> SUFFICES ASSUME NEW q \in Requests PROVE TraceOf(q)'
            BY DEF TraceInv
        <2>1. CASE q = Lister
            BY <1>1, <1>2, <1>4, <1>5, <2>1 DEF TraceOf
        <2>2. CASE q # Lister
            BY <1>1, <1>2, <1>6, <2>2 DEF TraceOf
        <2> QED BY <2>1, <2>2
    <1>11. FanOutInv'
        BY <1>3
    <1> QED BY <1>7, <1>8, <1>9, <1>10, <1>11 DEF IInv

-----------------------------------------------------------------------------
\* A handler that panics leaves its request unanswered, for Recovery.
LEMMA FilterTreeKeepsInv ==
    ASSUME IInv, NEW r \in Requests, FilterTree(r)
    PROVE  IInv'
    <1>1. TypeOK /\ \A q \in Requests : AnswerOf(q) /\ TraceOf(q)
        BY DEF IInv, AnswerInv, TraceInv
    <1>2. UNCHANGED <<tracing, errors, route, rest, raised, headers, sent, status, bodies, span, logged, listVars>>
        BY DEF FilterTree, answerVars
    <1>3. /\ at \in [Requests -> {"new", "chain", "validate", "work", "write", "unwind", "over"}]
          /\ panicked \in SUBSET Requests /\ at[r] = "work"
        BY <1>1 DEF FilterTree, TypeOK
    <1>4. at' = [at EXCEPT ![r] = "unwind"] /\ panicked' = panicked \cup {r}
        BY DEF FilterTree
    <1>5. /\ at' \in [Requests -> {"new", "chain", "validate", "work", "write", "unwind", "over"}]
          /\ panicked' \in SUBSET Requests /\ at'[r] = "unwind"
          /\ \A q \in Requests \ {r} : at'[q] = at[q] /\ (q \in panicked' <=> q \in panicked)
        BY <1>3, <1>4
    <1>6. TypeOK'
        <2>1. ListTypeOK'
            BY <1>1, <1>2, ListTypeStays DEF TypeOK
        <2> QED BY <1>1, <1>2, <1>5, <2>1 DEF TypeOK
    <1>7. MessagesOwn' /\ AnswersAreOwn'
        BY <1>2 DEF IInv, MessagesOwn, AnswersAreOwn
    <1>8. AnswerInv'
        <2> SUFFICES ASSUME NEW q \in Requests PROVE AnswerOf(q)'
            BY DEF AnswerInv
        <2>1. CASE q = r
            <3>1. bodies[q] = <<>> /\ status[q] = 0 /\ route[q] # "preflight"
                BY <1>1, <1>3, <2>1 DEF AnswerOf, Before
            <3> QED BY <1>2, <1>4, <1>5, <2>1, <3>1 DEF AnswerOf, Before
        <2>2. CASE q # r
            BY <1>1, <1>2, <1>5, <2>2 DEF AnswerOf
        <2> QED BY <2>1, <2>2
    <1>9. TraceInv'
        <2> SUFFICES ASSUME NEW q \in Requests PROVE TraceOf(q)'
            BY DEF TraceInv
        <2>1. CASE q = r
            BY <1>1, <1>2, <1>3, <1>5, <2>1 DEF TraceOf
        <2>2. CASE q # r
            BY <1>1, <1>2, <1>5, <2>2 DEF TraceOf
        <2> QED BY <2>1, <2>2
    <1>10. FanOutInv'
        BY <1>2 DEF IInv, FanOutInv, listVars
    <1> QED BY <1>6, <1>7, <1>8, <1>9, <1>10 DEF IInv

LEMMA NextKeepsInv ==
    ASSUME IInv, [Next]_vars
    PROVE  IInv'
    <1>1. CASE Next
        <2>1. ASSUME NEW r \in Requests, Step(r) PROVE IInv'
            BY <2>1, ArriveKeepsInv, PlainKeepsInv, NoRouteKeepsInv, CheckKeepsInv, BindKeepsInv,
               ValidateKeepsInv, WorkKeepsInv, FilterTreeKeepsInv, WriteKeepsInv, UnwindKeepsInv, ListingKeepsInv DEF Step
        <2>2. ASSUME NEW u \in Users, Goroutine(u) PROVE IInv'
            BY <2>2, BesideKeepsInv DEF Goroutine
        <2>3. ASSUME Leave PROVE IInv'
            BY <2>3, BesideKeepsInv DEF Leave
        <2> QED BY <1>1, <2>1, <2>2, <2>3 DEF Next
    <1>2. CASE UNCHANGED vars
        <2>1. UNCHANGED chainVars /\ UNCHANGED listVars
            BY <1>2 DEF vars
        <2>2. TypeOK'
            BY <2>1 DEF IInv, TypeOK, ListTypeOK, chainVars, listVars, answerVars
        <2>3. MessagesOwn' /\ AnswersAreOwn'
            BY <2>1 DEF IInv, MessagesOwn, AnswersAreOwn, chainVars, answerVars
        <2>4. AnswerInv' /\ TraceInv'
            BY <2>1 DEF IInv, AnswerInv, AnswerOf, TraceInv, TraceOf, chainVars, answerVars
        <2>5. FanOutInv'
            BY <2>1 DEF IInv, FanOutInv, chainVars, listVars
        <2> QED BY <2>2, <2>3, <2>4, <2>5 DEF IInv
    <1> QED BY <1>1, <1>2

\* The inductive invariant the properties of Requests rest on: where a request
\* is in the chain of handlers (internal/apiserver/httpserver.go) tells whether
\* it has been answered, traced and logged.
THEOREM RequestsInvariant == Spec => []IInv
    <1>1. Init => IInv
        BY InitKeeps
    <1>2. IInv /\ [Next]_vars => IInv'
        BY NextKeepsInv
    <1> QED BY <1>1, <1>2, PTL DEF Spec

\* Every variable of a request keeps its type, for any requests and users.
THEOREM RequestsTyped == Spec => []TypeOK
    <1>1. IInv => TypeOK
        BY DEF IInv
    <1> QED BY <1>1, RequestsInvariant, PTL

\* No answer carries a message written for another request (errorsx.go): the
\* shared values keep their message, WithMessage copies.
THEOREM AnswersOwn == Spec => []AnswersAreOwn
    <1>1. IInv => AnswersAreOwn
        BY DEF IInv
    <1> QED BY <1>1, RequestsInvariant, PTL

\* One answer to each request, and none to a request before its work (core.go,
\* authn.go, authz.go).
THEOREM EachAnsweredOnce == Spec => []AnsweredOnce
    <1>1. IInv => AnsweredOnce
        <2> SUFFICES ASSUME IInv, NEW r \in Requests PROVE AnsweredOnce!(r)
            BY DEF AnsweredOnce
        <2>1. AnswerOf(r) /\ Len(<<>>) = 0
            BY EmptyFacts DEF IInv, AnswerInv
        <2>2. bodies[r] = <<>> \/ Len(bodies[r]) = 1
            BY <2>1 DEF AnswerOf
        <2>3. Len(bodies[r]) <= 1
            <3>1. Len(bodies[r]) \in {0, 1}
                BY <2>1, <2>2, Zenon
            <3>2. \A n \in {0, 1} : n <= 1
                OBVIOUS
            <3> QED BY <3>1, <3>2
        <2>4. at[r] \in {"validate", "work"} => bodies[r] = <<>>
            BY <2>1 DEF AnswerOf, Before
        <2>5. at[r] = "over" => IF route[r] = "preflight" \/ r \in panicked
                                THEN bodies[r] = <<>> /\ status[r] # 0
                                ELSE Len(bodies[r]) = 1
            BY <2>1 DEF AnswerOf, Before
        <2> QED BY <2>3, <2>4, <2>5
    <1> QED BY <1>1, RequestsInvariant, PTL

\* The header of the trace is in the answer and the status in the log entry
\* (observability.go).
THEOREM TracesTold == Spec => []TracesTell
    <1>1. IInv => TracesTell
        BY DEF IInv, TraceInv, TraceOf, TracesTell
    <1> QED BY <1>1, RequestsInvariant, PTL

\* Nobody is missing from a list of any number of users, and a list panics only
\* when its client has left (list.go).
THEOREM NobodyIsMissing == Spec => []NobodyMissing
    <1>1. IInv => NobodyMissing
        BY DEF IInv, FanOutInv, NobodyMissing
    <1> QED BY <1>1, RequestsInvariant, PTL
=============================================================================
