------------------------------ MODULE UserList ------------------------------
(***************************************************************************)
(* One page of users (internal/apiserver/biz/v1/user/list.go): an errgroup   *)
(* of bounded size runs a goroutine per user, which converts the user and    *)
(* stores the result in a sync.Map; then the results are loaded in order.    *)
(* The context of the request is cancelled when the client goes away.        *)
(* Requests composes these steps with the handlers around them.              *)
(***************************************************************************)
EXTENDS Naturals, FiniteSets

CONSTANTS
    Users,              \* the users on the page
    MaxConcurrency      \* known.MaxErrGroupConcurrency

ASSUME UsersAssumption == IsFiniteSet(Users)
ASSUME MaxConcurrencyAssumption == MaxConcurrency \in Nat \ {0}

VARIABLES
    list,       \* List: "launch", "wait", "load", "ok" or "panic"
    waiting,    \* users no goroutine has been started for
    running,    \* users whose goroutine is running, each on a slot of the group
    stored,     \* keys of the sync.Map
    loaded,     \* users in the answer so far
    cancelled   \* the context is done

listVars == <<list, waiting, running, stored, loaded, cancelled>>

ListTypeOK ==
    /\ list \in {"launch", "wait", "load", "ok", "panic"}
    /\ waiting \in SUBSET Users
    /\ running \in SUBSET Users
    /\ stored \in SUBSET Users
    /\ loaded \in SUBSET Users
    /\ cancelled \in BOOLEAN

ListInit ==
    /\ list = "launch"
    /\ waiting = Users
    /\ running = {}
    /\ stored = {}
    /\ loaded = {}
    /\ cancelled = FALSE

\* eg.Go waits for a slot, then starts the goroutine.
Go ==
    /\ list = "launch"
    /\ Cardinality(running) < MaxConcurrency
    /\ \E u \in waiting : waiting' = waiting \ {u} /\ running' = running \cup {u}
    /\ UNCHANGED <<list, stored, loaded, cancelled>>

\* Mutant: a goroutine that finds the context done never returns.
ConvertOrHang(u) ==
    /\ u \in running
    /\ ~cancelled
    /\ stored' = stored \cup {u}
    /\ running' = running \ {u}
    /\ UNCHANGED <<list, waiting, loaded, cancelled>>

\* The goroutine: nothing if the context is done, else convert and store.
Convert(u) ==
    /\ u \in running
    /\ stored' = IF cancelled THEN stored ELSE stored \cup {u}
    /\ running' = running \ {u}
    /\ UNCHANGED <<list, waiting, loaded, cancelled>>

Launched ==
    /\ list = "launch" /\ waiting = {}
    /\ list' = "wait"
    /\ UNCHANGED <<waiting, running, stored, loaded, cancelled>>

\* Mutant: the results are loaded without waiting for the group.
WaitNot ==
    /\ list = "wait"
    /\ list' = "load"
    /\ UNCHANGED <<waiting, running, stored, loaded, cancelled>>

\* eg.Wait; no goroutine returns an error.
Wait ==
    /\ list = "wait" /\ running = {}
    /\ list' = "load"
    /\ UNCHANGED <<waiting, running, stored, loaded, cancelled>>

\* Mutant: the nil of a missing key is appended to the answer.
LoadNil ==
    /\ list = "load"
    /\ IF loaded = Users
       THEN list' = "ok" /\ UNCHANGED loaded
       ELSE \E u \in Users \ loaded :
              /\ loaded' = loaded \cup IF u \in stored THEN {u} ELSE {"nil"}
              /\ UNCHANGED list
    /\ UNCHANGED <<waiting, running, stored, cancelled>>

\* m.Load and the type assertion, which panics on the nil of a missing key.
Load ==
    /\ list = "load"
    /\ IF loaded = Users
       THEN list' = "ok" /\ UNCHANGED loaded
       ELSE \E u \in Users \ loaded :
              \/ u \in stored /\ loaded' = loaded \cup {u} /\ UNCHANGED list
              \/ u \notin stored /\ list' = "panic" /\ UNCHANGED loaded
    /\ UNCHANGED <<waiting, running, stored, cancelled>>

\* The client goes away.
Cancel ==
    /\ ~cancelled
    /\ cancelled' = TRUE
    /\ UNCHANGED <<list, waiting, running, stored, loaded>>
=============================================================================
