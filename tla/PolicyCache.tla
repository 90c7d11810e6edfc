----------------------------- MODULE PolicyCache -----------------------------
(***************************************************************************)
(* The enforcers of several servers under arbitrary calls of the business  *)
(* layer, with two history variables that record which writes a server's   *)
(* memory cannot know of.  They bound how far a memory may be from the     *)
(* casbin_rule table.                                                      *)
(***************************************************************************)
EXTENDS Enforcer

CONSTANT MaxWrites   \* bound on the calls that write, for TLC

VARIABLES
    unseen,          \* unseen[s]: rules written since the read that mem[s] rests on
    unread,          \* unread[s]: rules written since the read in flight
    writes           \* calls that wrote so far

cacheVars == <<rules, mem, loading, snap, unseen, unread, writes>>

CacheTypeOK ==
    /\ EnforcerTypeOK
    /\ unseen \in [Servers -> SUBSET Rules]
    /\ unread \in [Servers -> SUBSET Rules]
    /\ writes \in Nat

CacheInit ==
    /\ \E stored \in SUBSET Rules : EnforcerInit(stored)
    /\ unseen = [s \in Servers |-> {}]
    /\ unread = [s \in Servers |-> {}]
    /\ writes = 0

\* What a call of server s on the rules in "touched" does to the history: the
\* caller's memory has the outcome, the other memories and every read in
\* flight do not.
Record(s, touched) ==
    /\ unseen' = [t \in Servers |-> IF t = s THEN unseen[t] \ touched
                                             ELSE unseen[t] \cup touched]
    /\ unread' = [t \in Servers |-> IF loading[t] THEN unread[t] \cup touched
                                                  ELSE unread[t]]
    /\ writes < MaxWrites
    /\ writes' = writes + 1

AddRules(s, new) ==
    \/ AddStored(s, new) /\ Record(s, new)
    \/ (AddRefused(s, new) \/ AddFails(s, new)) /\ UNCHANGED <<unseen, unread, writes>>

RemoveRules(s, old) ==
    /\ RemoveMatching(s, old)
    /\ Record(s, old)

Read(s) ==
    /\ ReadPolicy(s)
    /\ unread' = [unread EXCEPT ![s] = {}]
    /\ UNCHANGED <<unseen, writes>>

Apply(s) ==
    /\ ApplyPolicy(s)
    /\ unseen' = [unseen EXCEPT ![s] = unread[s]]
    /\ unread' = [unread EXCEPT ![s] = {}]
    /\ UNCHANGED writes

Restart(s) ==
    /\ StartEnforcer(s)
    /\ unseen' = [unseen EXCEPT ![s] = {}]
    /\ unread' = [unread EXCEPT ![s] = {}]
    /\ UNCHANGED writes

CacheNext ==
    \E s \in Servers :
        \/ \E touched \in SUBSET Rules \ {{}} : AddRules(s, touched) \/ RemoveRules(s, touched)
        \/ Read(s)
        \/ Apply(s)
        \/ Restart(s)

\* The reload goroutine runs for as long as its server does.
CacheSpec ==
    /\ CacheInit /\ [][CacheNext]_cacheVars
    /\ \A s \in Servers : WF_cacheVars(Read(s)) /\ WF_cacheVars(Apply(s))

-----------------------------------------------------------------------------
Differ(A, B) == (A \ B) \cup (B \ A)

\* The memory of a server (SyncedEnforcer in pkg/authz) differs from
\* casbin_rule only in rules that somebody wrote after the table was read for
\* the load this memory rests on: a call of another server, or a call of its
\* own that ran between the two halves of a reload.
LagIsBounded == \A s \in Servers : Differ(mem[s], rules) \subseteq unseen[s]

\* The same of a reload that has read and not applied.
ReadLagIsBounded ==
    \A s \in Servers : loading[s] => Differ(snap[s], rules) \subseteq unread[s]

LagInv == CacheTypeOK /\ LagIsBounded /\ ReadLagIsBounded

\* Once the calls stop, the reload every ten seconds (StartAutoLoadPolicy)
\* brings every server to the table, for good.
MemoriesConverge == <>[](\A s \in Servers : mem[s] = rules)
=============================================================================
