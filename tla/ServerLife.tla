----------------------------- MODULE ServerLife -----------------------------
(***************************************************************************)
(* The life of one apiserver process: the goroutine of main, which sets up *)
(* telemetry, builds the server, waits for a signal, drains and shuts      *)
(* telemetry down; the goroutine of RunOrDie, which listens; signals; and  *)
(* the connections net/http keeps for clients.                             *)
(***************************************************************************)
EXTENDS Naturals, FiniteSets

CONSTANTS
    Connections,
    Mode             \* otel.output-mode

ASSUME ModeAssumption == Mode \in {"otel", "file", "console", "classic", "hybrid"}

VARIABLES
    main,            \* where the goroutine of main is
    step,            \* the kind of telemetry Apply or Shutdown is at
    providers,       \* the providers and the files that are set up and not shut down
    files,
    listener,        \* what the goroutine of RunOrDie does
    cancelled,       \* the context of SetupSignalContext is done
    overdue,         \* the ten seconds of GracefulStop are over
    conn,            \* connections: none, open (no request on it), busy
    ending           \* how the process ended last

lifeVars == <<main, step, providers, files, listener, cancelled, overdue, conn, ending>>

Kinds == <<"traces", "metrics", "logs">>

KindSet == {"traces", "metrics", "logs"}

LifeTypeOK ==
    /\ main \in {"apply", "build", "wait", "drain", "flush", "over"}
    /\ step \in 1..4
    /\ providers \subseteq KindSet /\ files \subseteq KindSet
    /\ listener \in {"none", "starting", "listening", "failed", "closed"}
    /\ cancelled \in BOOLEAN /\ overdue \in BOOLEAN
    /\ conn \in [Connections -> {"none", "open", "busy"}]
    /\ ending \in {"none", "failed", "finished", "killed"}

-----------------------------------------------------------------------------
Alive == main # "over"

NoConnection == [c \in Connections |-> "none"]

Busy == {c \in Connections : conn[c] = "busy"}

LifeInit ==
    /\ main = "apply" /\ step = 1
    /\ providers = {} /\ files = {}
    /\ listener = "none"
    /\ cancelled = FALSE /\ overdue = FALSE
    /\ conn = NoConnection
    /\ ending = "none"

\* The process ends, and everything it holds with it.
Exit(how) ==
    /\ main' = "over" /\ step' = 1 /\ ending' = how
    /\ listener' = "none" /\ conn' = NoConnection
    /\ cancelled' = FALSE /\ overdue' = FALSE

\* It did not get to shut anything down: the kernel closes its files.
ExitAsIs(how) == Exit(how) /\ providers' = {} /\ files' = {}

\* It is started again.
Start ==
    /\ ~Alive
    /\ main' = "apply" /\ ending' = "none"
    /\ UNCHANGED <<step, providers, files, listener, cancelled, overdue, conn>>

-----------------------------------------------------------------------------
\* Apply sets up traces, metrics and logs, in this order.  The modes classic and
\* hybrid have no provider of logs, and only the mode file opens files.
Apply ==
    /\ main = "apply"
    /\ providers' = providers \cup (IF Mode \in {"classic", "hybrid"} THEN {Kinds[step]} \ {"logs"} ELSE {Kinds[step]})
    /\ files' = files \cup (IF Mode = "file" THEN {Kinds[step]} ELSE {})
    /\ IF step = 3 THEN main' = "build" /\ step' = 1 ELSE step' = step + 1 /\ UNCHANGED main
    /\ UNCHANGED <<listener, cancelled, overdue, conn, ending>>

\* One of them fails: main returns before it has deferred Shutdown.
ApplyFails == main = "apply" /\ ExitAsIs("failed")

\* run: NewServer succeeds, and Server.Run leaves RunOrDie to a goroutine,
Run ==
    /\ main = "build"
    /\ main' = "wait" /\ listener' = "starting"
    /\ UNCHANGED <<step, providers, files, cancelled, overdue, conn, ending>>

\* or it fails, and the deferred Shutdown is what is left to do.
BuildFails ==
    /\ main = "build"
    /\ main' = "flush"
    /\ UNCHANGED <<step, providers, files, listener, cancelled, overdue, conn, ending>>

\* The signal handler: the first signal cancels the context, the second exits.
FirstSignal ==
    /\ Alive /\ ~cancelled
    /\ cancelled' = TRUE
    /\ UNCHANGED <<main, step, providers, files, listener, overdue, conn, ending>>

\* A second signal, or a crash.
Killed == Alive /\ ExitAsIs("killed")

-----------------------------------------------------------------------------
\* ListenAndServe in the goroutine of RunOrDie.
Listen ==
    /\ listener = "starting"
    /\ listener' = "listening"
    /\ UNCHANGED <<main, step, providers, files, cancelled, overdue, conn, ending>>

\* It returns with an error: the address is in use, or accepting failed.  The
\* error is logged, and nobody else learns of it.
ListenFails ==
    /\ listener \in {"starting", "listening"}
    /\ listener' = "failed"
    /\ UNCHANGED <<main, step, providers, files, cancelled, overdue, conn, ending>>

Connect(c) ==
    /\ listener = "listening" /\ conn[c] = "none"
    /\ conn' = [conn EXCEPT ![c] = "open"]
    /\ UNCHANGED <<main, step, providers, files, listener, cancelled, overdue, ending>>

Disconnect(c) ==
    /\ conn[c] = "open"
    /\ conn' = [conn EXCEPT ![c] = "none"]
    /\ UNCHANGED <<main, step, providers, files, listener, cancelled, overdue, ending>>

\* A request comes in on a connection; it may do so while the server drains.
BeginRequest(c) ==
    /\ conn[c] = "open"
    /\ conn' = [conn EXCEPT ![c] = "busy"]
    /\ UNCHANGED <<main, step, providers, files, listener, cancelled, overdue, ending>>

\* The answer is out; the connection stays open unless the server drains.
EndRequest(c) ==
    /\ conn[c] = "busy"
    /\ conn' = [conn EXCEPT ![c] = IF main \in {"drain", "flush"} THEN "none" ELSE "open"]
    /\ UNCHANGED <<main, step, providers, files, listener, cancelled, overdue, ending>>

-----------------------------------------------------------------------------
\* Run goes on: GracefulStop closes the listener, or keeps one that is just
\* starting from listening (or it has failed already),
Stop ==
    /\ main = "wait" /\ cancelled
    /\ main' = "drain"
    /\ listener' = "closed"
    /\ UNCHANGED <<step, providers, files, cancelled, overdue, conn, ending>>

\* closes connections as it finds them without a request,
CloseIdle(c) == main = "drain" /\ Disconnect(c)

\* Mutant: the context of GracefulStop has no deadline.
TimeoutNever == FALSE /\ UNCHANGED lifeVars

\* gives up after ten seconds,
Timeout ==
    /\ main = "drain" /\ ~overdue
    /\ overdue' = TRUE
    /\ UNCHANGED <<main, step, providers, files, listener, cancelled, conn, ending>>

\* Mutant: the connections are not waited for.
DrainedAtOnce ==
    /\ main = "drain"
    /\ main' = "flush" /\ step' = 1
    /\ UNCHANGED <<providers, files, listener, cancelled, overdue, conn, ending>>

\* and returns when there is none left, or then.
Drained ==
    /\ main = "drain"
    /\ conn = NoConnection \/ overdue
    /\ main' = "flush" /\ step' = 1
    /\ UNCHANGED <<providers, files, listener, cancelled, overdue, conn, ending>>

ShutDownNext ==
    /\ step < 4
    /\ providers' = providers \ {Kinds[step]}
    /\ step' = step + 1
    /\ UNCHANGED <<main, files, listener, cancelled, overdue, conn, ending>>

\* Mutant: the first error ends Shutdown.
ShutdownUntilError ==
    /\ main = "flush"
    /\ \/ ShutDownNext
       \/ step = 4 /\ Exit("finished") /\ files' = {} /\ UNCHANGED providers
       \/ step < 4 /\ Exit("finished") /\ UNCHANGED <<providers, files>>

\* The deferred Shutdown: providers in turn, whether or not one of them fails
\* (the context is done after a signal, so that they may), then the files; then
\* main returns, whatever requests there are.
Shutdown ==
    /\ main = "flush"
    /\ \/ ShutDownNext
       \/ step = 4 /\ Exit("finished") /\ files' = {} /\ UNCHANGED providers

-----------------------------------------------------------------------------
\* The steps of main, which the Go runtime and the clock get to.
MainStep == Apply \/ Run \/ Stop \/ Timeout \/ Drained \/ Shutdown
=============================================================================
