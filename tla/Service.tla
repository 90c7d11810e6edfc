------------------------------ MODULE Service ------------------------------
(***************************************************************************)
(* What a server promises the clients it is connected to: connections are  *)
(* taken only while it is up; once it has been told to stop it serves the  *)
(* requests of connections it has, and returns when there is none left.    *)
(* Requests are cut short when it dies or was kept waiting for too long,   *)
(* and for no other reason.                                                *)
(***************************************************************************)
CONSTANT Clients

VARIABLES
    phase,           \* down, up, stopping or dead
    linked,          \* connected clients
    waiting,         \* those with a request that is not answered
    patient          \* the server still waits for them

vars == <<phase, linked, waiting, patient>>

Init == phase = "down" /\ linked = {} /\ waiting = {} /\ patient = TRUE

Up == phase = "down" /\ phase' = "up" /\ UNCHANGED <<linked, waiting, patient>>

Link(c) ==
    /\ phase = "up" /\ c \notin linked
    /\ linked' = linked \cup {c}
    /\ UNCHANGED <<phase, waiting, patient>>

Unlink(c) ==
    /\ c \in linked \ waiting
    /\ linked' = linked \ {c}
    /\ UNCHANGED <<phase, waiting, patient>>

Ask(c) ==
    /\ c \in linked \ waiting
    /\ waiting' = waiting \cup {c}
    /\ UNCHANGED <<phase, linked, patient>>

\* A stopping server answers on the connection and lets go of it.
Answer(c) ==
    /\ c \in waiting
    /\ waiting' = waiting \ {c}
    /\ linked' = IF phase = "stopping" THEN linked \ {c} ELSE linked
    /\ UNCHANGED <<phase, patient>>

Stop == phase = "up" /\ phase' = "stopping" /\ UNCHANGED <<linked, waiting, patient>>

Hurry == phase = "stopping" /\ patient /\ patient' = FALSE /\ UNCHANGED <<phase, linked, waiting>>

\* The server returns.
Return ==
    /\ phase = "stopping"
    /\ waiting = {} \/ ~patient
    /\ phase' = "down" /\ linked' = {} /\ waiting' = {} /\ patient' = TRUE

\* It dies, whatever it was doing, and may be brought back.
Die == phase' = "dead" /\ linked' = {} /\ waiting' = {} /\ patient' = TRUE

Revive == phase = "dead" /\ phase' = "down" /\ UNCHANGED <<linked, waiting, patient>>

Next ==
    \/ Up \/ Stop \/ Hurry \/ Return \/ Die \/ Revive
    \/ \E c \in Clients : Link(c) \/ Unlink(c) \/ Ask(c) \/ Answer(c)

Spec == Init /\ [][Next]_vars
=============================================================================
