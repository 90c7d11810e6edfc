------------------------------ MODULE Enforcer ------------------------------
(***************************************************************************)
(* The policy store behind pkg/authz: one casbin_rule table shared by the  *)
(* servers, and in every server a casbin SyncedEnforcer that answers       *)
(* requests from its own memory.  NewAuthz (pkg/authz/authz.go) builds the *)
(* enforcer on the gorm adapter, loads it once and starts a reload every   *)
(* ten seconds.  Casbin itself is outside the repository: its calls are    *)
(* modelled by what the repository relies on.                              *)
(*                                                                         *)
(* Every call of the enforcer holds its lock, writes the table first and   *)
(* the memory second.  A reload is different: it reads the table under the *)
(* read lock, lets go, and replaces the memory under the write lock, so a  *)
(* call of the same server may run between the two.                        *)
(***************************************************************************)
EXTENDS Naturals

CONSTANTS
    Servers,   \* the apiserver processes on one database
    Rules      \* every rule that may be stored

VARIABLES
    rules,     \* the rows of casbin_rule
    mem,       \* mem[s]: the policy in the memory of server s
    loading,   \* loading[s]: a reload has read the table, and not applied it
    snap       \* snap[s]: what that reload read

EnforcerTypeOK ==
    /\ rules \in SUBSET Rules
    /\ mem \in [Servers -> SUBSET Rules]
    /\ loading \in [Servers -> BOOLEAN]
    /\ snap \in [Servers -> SUBSET Rules]

\* Every server has started on the same table.
EnforcerInit(stored) ==
    /\ rules = stored
    /\ mem = [s \in Servers |-> stored]
    /\ loading = [s \in Servers |-> FALSE]
    /\ snap = [s \in Servers |-> {}]

-----------------------------------------------------------------------------
(* The calls the business layer makes.                                     *)

\* AddPolicies and AddGroupingPolicy answer false, without an error and
\* without adding anything, when the memory already has one of the rules.
AddRefused(s, new) ==
    /\ new \cap mem[s] # {}
    /\ UNCHANGED <<rules, mem, loading, snap>>

\* Otherwise the rules go to the table, then to the memory.
AddStored(s, new) ==
    /\ new \cap mem[s] = {}
    /\ rules' = rules \cup new
    /\ mem' = [mem EXCEPT ![s] = @ \cup new]
    /\ UNCHANGED <<loading, snap>>

\* The table refuses the insert: the call fails and the memory is untouched.
AddFails(s, new) ==
    /\ new \cap mem[s] = {}
    /\ UNCHANGED <<rules, mem, loading, snap>>

\* Mutant: the rules stay in the memory.
RemoveStoredOnly(s, old) ==
    /\ rules' = rules \ old
    /\ UNCHANGED <<mem, loading, snap>>

\* RemovePolicy, RemoveGroupingPolicy and the filtered forms: gone are the
\* rules that match the arguments.
RemoveMatching(s, old) ==
    /\ rules' = rules \ old
    /\ mem' = [mem EXCEPT ![s] = @ \ old]
    /\ UNCHANGED <<loading, snap>>

-----------------------------------------------------------------------------
(* The reload goroutine and the start of a server.                         *)

ReadPolicy(s) ==
    /\ ~loading[s]
    /\ loading' = [loading EXCEPT ![s] = TRUE]
    /\ snap' = [snap EXCEPT ![s] = rules]
    /\ UNCHANGED <<rules, mem>>

\* Mutant: the rules read are added to the ones in memory.
ApplyPolicyOnTop(s) ==
    /\ loading[s]
    /\ mem' = [mem EXCEPT ![s] = @ \cup snap[s]]
    /\ loading' = [loading EXCEPT ![s] = FALSE]
    /\ snap' = [snap EXCEPT ![s] = {}]
    /\ UNCHANGED rules

ApplyPolicy(s) ==
    /\ loading[s]
    /\ mem' = [mem EXCEPT ![s] = snap[s]]
    /\ loading' = [loading EXCEPT ![s] = FALSE]
    /\ snap' = [snap EXCEPT ![s] = {}]
    /\ UNCHANGED rules

\* A new process of server s: NewAuthz loads the table before it serves.
StartEnforcer(s) ==
    /\ mem' = [mem EXCEPT ![s] = rules]
    /\ loading' = [loading EXCEPT ![s] = FALSE]
    /\ snap' = [snap EXCEPT ![s] = {}]
    /\ UNCHANGED rules
=============================================================================
