# Verification of gin-enterprise-template in TLA+

The repository is a Go backend: users, roles, permissions and menus in
PostgreSQL (GORM), a REST API (Gin), JWT sessions, and Casbin for
authorization. This directory holds TLA+ models of it, the TLC configurations
that check them, and TLAPS proofs of their main safety properties. `PROJECT.json` lists
components, runs, mutants, hazards, theorems and, for every definition, the
source lines it stands for.

    tlc -config RolesRace.cfg MCRolePermissions     # check one instance
    tlapm RolePermissionsProofs.tla                 # check the proofs

## The system

| Component | State | Operations | Talks to |
|---|---|---|---|
| Enforcer (`pkg/authz`, Casbin) | table `casbin_rule`; one in-memory policy per server | add, remove, reload every 10 s, load at start | database, on a connection of its own |
| Roles (`biz/v1/role`, `store/role.go`) | `role`, `role_permission` | create, update, delete, assign permissions | Enforcer (p rules) |
| Users' roles (`biz/v1/user_role`) | `user_role` | assign, remove, read | Enforcer (g rules) |
| Users (`biz/v1/user`) | `user` | create, update, change password, delete, list | Enforcer (a g rule at creation), bcrypt |
| Permissions (`biz/v1/permission`) | `permission` (a tree by `parent_id`, without foreign key) | create, update, delete, list, tree | cascade to `role_permission` |
| Menus (`biz/v1/menu`) | `menu` (a tree, cascading foreign key) | create, update, delete, trees | permissions |
| Sessions (`pkg/token`, middleware) | none in the server; access and refresh tokens | login, refresh, authenticate, authorize | users, Enforcer |
| Store, paging (`pkg/store`, `internal/pkg/pagination`) | none | query options, page tokens, whole-row `Save` | database |
| Server (`cmd`, `internal/apiserver`, `pkg/server`) | the process, its connections, telemetry providers and files | start, serve, graceful stop, shut telemetry down | everything |
| Requests (`httpserver.go`, middlewares, `pkg/core`, `pkg/errorsx`) | per request: headers, status, body, span, log entry; shared: the error values of `errorsx` and `errno` | the chain of handlers and the way back | handlers, logs, traces |
| Pool (`store.TX`, `pkg/options`) | up to 100 connections | begin, commit, roll back | PostgreSQL |

What is hard in it:

* **Two stores for one fact.** What a role grants is in `role_permission` and
  in `casbin_rule`. The first is written in a transaction, the second at once,
  by Casbin's adapter on another connection. Failures, rollbacks, crashes and
  overlapping requests separate them.
* **Two copies of the policy.** Each server answers from memory; a write of
  another server arrives with the next reload, and a reload is itself two
  steps.
* **READ COMMITTED.** "Delete the old rows, insert the new ones" in one
  transaction is not an override when two transactions do it at once.
* **Check, then act.** Role codes, user names, children of menus and of
  permissions are looked up outside the transaction that relies on the answer.
* **Fixed resources.** A request that assigns permissions holds one pooled
  connection while it waits for a second.
* **Trees in tables.** Rows refer to their parents; one table cascades, the
  other does not, and updates may close a circle.
* **Sessions without a list.** A token is good by itself until it expires; what
  it says of the user is compared with rows that change meanwhile, and it
  outlives the process that signed it.
* **Stopping.** Main, the listener's goroutine, a signal, a deadline and the
  requests on open connections meet in the last ten seconds of a process.
* **One exit, many ways out.** Middlewares abort, handlers fail, a panic
  unwinds; requests share the error values they answer with.
* **Fan-out and lists.** The list of users is put together by goroutines whose
  context may end; pages are followed while rows come and go.

What makes each component correct:

| Component | Correct when |
|---|---|
| Enforcer | a memory lags the table by no more than the writes since its load, and catches up |
| Roles | rows name roles and permissions that exist; a code names one role; every stored policy stands for a row, or its cause can be named; every request is answered |
| Users' roles | the g rules of a user are the roles of the user's rows, or an incident explains the difference |
| Users | no two users share an identifier; a row is what the requests on it asked for, one after the other; deleted users stay deleted |
| Lists | following the tokens ends; an answer without a token has left nothing out; nobody is missing from a list that was put together |
| Pool | each connection and lock is given back once; requests block each other only when transactions hold the whole pool |
| Permissions, menus | what a deletion takes, and what it leaves without a parent, came after it looked; a circle has an update to blame |
| Sessions | who is let through was that user at some moment of the request; every session goes back to a password; a token is used for its kind, with its secret, before it expires |
| Server | clients get what `Service` promises; a process that is told to stop does, with its telemetry shut down |
| Requests | each is answered once, with its own message; the answer names the trace, the log has the answer's status |

## What is modelled

| Module | Models | State and actions in terms of the code |
|---|---|---|
| `Enforcer` | `casbin_rule` and the `SyncedEnforcer` of each server | `rules` is the table, `mem[s]` the model in memory, `loading[s]`/`snap[s]` a reload between its read (read lock) and its swap (write lock). `AddStored`, `AddRefused`, `AddFails`, `RemoveMatching`: the calls the business layer makes. `ReadPolicy`, `ApplyPolicy`: `StartAutoLoadPolicy`. `StartEnforcer`: `NewAuthz`. |
| `PolicyCache` | the enforcers under arbitrary calls | adds the history `unseen`, `unread`: what each memory and each read in flight cannot know of |
| `RolePermissions` | `Create`, `Delete`, `AssignPermissionsToRole`, deletion of permissions, crashes | uses `Enforcer` with `Rules <- Policy`. `pc[q]` is where request q is, `rq[q]` its arguments and local variables, `view[q]`/`ins[q]` the rows its transaction deletes and inserts |
| `UserRoles` | `AssignRolesToUser`, `RemoveRoleFromUser`, and what creating and deleting users and roles does to `user_role` and the g rules | uses `Enforcer` with `Rules <- Grouping`. No transaction: each statement commits. `rq[q].old` are the roles read before the rows change, `rq[q].todo` the loop over the new ones. |
| `UserAccounts` | `Create`, `Update`, `ChangePassword`, `Delete` over the table `user` | `users[u]` is the row, `rq[q].read` the struct a request read, changes and saves as a whole; `Save` is an UPDATE, or an INSERT when no row is left. `expected`, `overtaken`, `stale` are history. |
| `ListPaging` | the lists in pages, their cursor and token | `rows[t]` are the ids of a table, `Find` and `Count` the two statements of `List`; clients follow the tokens while others `Insert` and `Remove`. |
| `Trees` | `Create`, `Update`, `Delete` of menus and of permissions | `table` says which of the two it is; `live`, `parent`, `used` are the rows. A request goes through one action per statement: look a code up (`Create`, or `Refuse` when it is taken), insert; read, save; look for children, delete. `strays`, `bent` and the fields `clear` and `overtaken` are history. |
| `Sessions` | tokens, login, refresh, `AuthnMiddleware`, and what handlers do to the user they serve | `signs` are the pairs of tokens signed, each with its user, time, secret, and what was proved; `account` the rows of `user`. `rq[r].could`/`couldnt` are history: whether the rows agreed with the request's claim at some moment of it. |
| `ServerLife` | main, `RunOrDie`'s goroutine, signals, `GracefulStop`, telemetry, connections | `main` and `listener` are where the two goroutines are, `step` the provider `Apply` or `Shutdown` is at, `conn[c]` a connection of net/http |
| `Service` | what clients are promised | abstract: connections are taken while the server is up, and requests are cut short by death or the deadline alone |
| `Gateway` | `Sessions` on a process of `ServerLife` | joins their steps: a request begins on an open connection, its last step answers there, a process that ends cuts its requests and starts again with its secret or another; implements `Service` |
| `UserList` | the errgroup of the user list | `Go` and `Launched` (the loop), `Convert` (a goroutine), `Wait`, `Load`, and a context that may be cancelled in between; no specification of its own |
| `Requests` | the chain of handlers around requests, one of which may run `UserList` | `at[r]` and `rest[r]` are where the request is and which handlers are left; `raised[r]` the error value it holds, which may be one of the shared `errors`; `headers`, `sent`, `status`, `bodies`, `span`, `logged` what a client, a trace and the log see |
| `ConnPool` | what requests of one server wait for | `free` connections, the enforcer's read-write lock, row locks. Every request authenticates (a query), authorizes (the read lock) and queries; `Assigners` then run the transaction of `AssignPermissionsToRole`. |
| `MCPolicyCache`, `MCRolePermissions`, `MCUserRoles`, `MCUserAccounts`, `MCListPaging`, `MCConnPool`, `MCTrees`, `MCGateway`, `MCRequests` | TLC instances | |
| `TableReaderProofs` (of `ListPaging` and `PolicyCache`), `RolePermissionsProofs`, `UserAccountsProofs`, `TreesProofs`, `GatewayProofs`, `RequestsProofs`, `UserRolesProofs`, `ConnPoolProofs` | theorems | |

`RolePermissions` has one action per statement of the code that another
process can observe:

    AssignPermissionsToRole   read the role                     (assignpermissions.go:19)
    ScanRows, LockRows        DELETE of the old rows            (store/role.go:69)
    InsertRows                INSERT of the new rows            (store/role.go:82)
    CollectPolicies           read the permissions back         (assignpermissions.go:68)
    RemoveOldPolicies         RemoveFilteredPolicy              (assignpermissions.go:85)
    AddNewPolicies            AddPolicies                       (assignpermissions.go:92)
    Commit / Fails            end of the transaction            (store/store.go:87)
    Create, InsertRole        GetByRoleCode, then INSERT        (create.go)
    Delete, DeleteRole, DropGroups   read, DELETE, Casbin       (delete.go)

`Fails(q)` rolls back at any statement, `Crash(s)` ends every request of a
server and restarts it, `Reload(s)` is the two-step reload.

`Requests` keeps the order of the chain: the global middlewares in one step
(`Arrive`; nothing between them can be told apart), then the handlers of the
route one by one, then the way back (`Unwind`). What a validator accepts, and
what the business logic answers, are choices; which error values the places of
a route hold, and whether they are copies, is the code's: `Validate` and
`BizErrors` name the shared values each kind of route returns (creating a user
needs no authentication, and is a route of its own beside the login), and any
other error of an operation is a value of its request. `FilterTree` is the panic
of the two trees that are asked for with a filter.

PostgreSQL, Casbin v2.103 and gorm-adapter are outside the repository and
modelled from what the code relies on:

* READ COMMITTED: a DELETE finds the rows committed when it starts, waits for
  the locks of other transactions, and skips what they have deleted
  (`DeleteRows` takes those rows out of `view`).
* An INSERT waits for an uncommitted equal row, and fails on the unique index
  or a foreign key; inserted rows pin the role and the permissions they name.
* A cycle of waits is broken by failing one statement (`Deadlocked`). A
  cascading DELETE and a multi-row INSERT are single steps here, so the cycles
  they can form are stated there rather than emerging.
* `AddPolicies` compares with the memory, answers false and does nothing when
  one of the rules is there, and otherwise writes table, then memory.
  Duplicates in one batch, or rules the memory does not know of, *may* meet a
  unique index of `casbin_rule` (gorm-adapter creates one, `template.sql` does
  not), so both outcomes are allowed.
* The batch inserts hand gorm a `[]interface{}` (`store/role.go:82`,
  `store/user_role.go:72`). gorm 1.31.0 refuses to insert a slice of that type,
  so with the pinned version an assignment ends there unless its list is empty;
  a repair of that line, or another version, inserts the rows. `RolePermissions`
  has the constant `BatchAccepted` for it. With `FALSE` only lists without new
  rows get past the insert: `SyncAtomic` is run with it, so that its trace is one
  of the code as it stands. With `TRUE`, in the passing runs, both outcomes are
  allowed everywhere; the behaviours of `FALSE` are among them, so what these runs
  show holds of the code as it stands and once the insert works. `UserRoles` and
  `ConnPool` allow both outcomes in the same way. The refusal is not counted as a fault,
  and the theorems hold for either value.
* `datastore.DB` leaves the context of a request out, and `TX` passes it on: in
  `ConnPool` a client that goes away ends transactions and no other statement.
  `database/sql` rolls such a transaction back and takes its connection.

Bounds of the model, all of them named constants: `MaxActive` (requests at a
time), `MaxFaults` (failing calls and crashes), `MaxWrites` (writing calls, in
`PolicyCache`), `MaxID` (rows ever created, in `ListPaging`), `MaxCancels`
(clients that go away, in `ConnPool`), `MaxTime`, `MaxKeys` and `MaxSigns` (the
clock, the secrets ever configured and the pairs of tokens signed, in
`Sessions`). Each request is used once, except in `Gateway`, where the requests
on a connection never end. `Operations` selects what clients
do in an instance. Role codes and resources of permissions never change: the
update requests (`role.proto`, `permission.proto`) have no such field.

The initial state of `RolePermissions`, and of `UserRoles`, is any content of
the tables with rules to match, as an initialisation script leaves it; that of
`Trees` is any forest.

## What the runs show

Passing:

| Run | Question | Bounds | States |
|---|---|---|---|
| `MCPolicyCache` | Do memories lag by no more than the writes since their load, and do they converge? | 2 servers, 2 rules, 3 writing calls | 19,406 |
| `RolesRace` | Do rows resolve, are codes unique, and policies without rows and rows without policies explained when requests overlap, and a code is deleted and taken again? | 3 requests, 2 role IDs with 1 code, 2 permissions, 1 failure or crash; symmetric requests | 0.83 M |
| `RolesSerial` | One request at a time, no failure: all policies of a role or none? | 2 servers with reloads, 3 permissions, 2 of them for one resource | 1.52 M |
| `RolesAnswer` | Is every request answered? | 2 requests of any kind, 2 role IDs, a permission without resource, 1 fault | 0.09 M |
| `UserRoles` | Do g rules follow the rows of a user? | 2 requests about 1 user, 2 roles, reloads, 1 failure or crash | 0.51 M |
| `UserAccounts` | Are identifiers unique, and what becomes of overlapping saves? | 2 requests, 2 user IDs, 2 names, 2 addresses, 2 passwords, 1 failure | 0.13 M |
| `MCListPaging` | Does following the tokens end, and show what was matched? | 1 client, up to 5 rows that come and go, sizes -1, 0, 1, 2, 7 for a default of 2 and a maximum of 3 | 0.08 M |
| `Trees` | What do deletions, creations and moves that overlap do to a tree? | every forest of up to 4 rows, of menus and of permissions, 3 requests at a time, 1 failing statement; symmetric rows and requests | 0.42 M |
| `Gateway` | Who is let through, where do sessions come from, how does the process end? | 1 connection used again and again, 2 user IDs for 1 name, 2 passwords, 2 pairs of tokens, 2 secrets, a clock of 3 ticks with lives of 1 and 2 | 0.77 M |
| `Requests` | Is every request answered, once, with its own message and trace, and nobody missing from a list? | 2 requests of every route, a list of 3 users with 2 goroutines, a client that may leave | 0.09 M |
| `MCConnPool` | Are connections and locks accounted for, and who is stuck when? | 2 assignments and a query on 2 connections, 2 roles, the reload, 1 client that leaves | 0.12 M |

`UnbackedRulesExplained` is the central one. A policy in `casbin_rule` stands
for a row that is committed or that a request past `AddPolicies` is about to
commit; the history variable `excused` collects what an incident leaves (a
rollback or crash after `AddPolicies`, a deleted role or permission, an
assignment whose `RemoveFilteredPolicy` failed) and a later
`RemoveFilteredPolicy` takes out again. Overlapping requests alone never leave
a policy behind.

`MissingRulesExplained` is its converse. A committed row that no open request
is about to replace, and a row whose policy a request has handed to
`AddPolicies`, has its policy in `casbin_rule`, or the policy is in the history
variable `missed`: a rollback or crash came after `RemoveFilteredPolicy`, or
`AddPolicies` answered false. Here overlapping requests do harm by themselves:
`RemoveFilteredPolicy` takes all policies of the role's code, also those of rows
which its transaction's DELETE could not see. A later `AddPolicies` that is
stored takes its policies out of `missed` again. The type invariant of
`RolePermissions` is not among the invariants of its runs, since it is proved.

Three requests are enough for the cases that matter: two that
hold rows of one role while a third waits, and a deletion that meets both.
Requests are interchangeable, so the runs without temporal properties use
symmetry.

`RulesFollowRows` is the same question for users. Without a transaction there
are more incidents: a statement that fails between rows and rules, two requests
about one user at a time, the deletion of the user or the role, and an
`AddGroupingPolicy` that a stale memory answers with false.

`RowsAsAsked` replays the saved requests one after the other (`expected`) and
compares: columns are lost, and users return, only where a request saved a
struct whose row another one had written since. `IdentifiersUnique` rests on
the unique indexes alone, since the look-ups come before the statement.

In `MCListPaging`, five rows for pages of at most three make a full last page,
an empty page after it, and rows that go between the page and its count. The
list of roles is not part of it: its test for another page can never be met, so
its full first page has no token.

In `MCConnPool` both ends occur: two transactions that hold both connections
and wait for a third (`Exhausted`), and behaviours in which all are answered.
`EveryRequestServed` says that nothing else keeps a request waiting for ever;
with fewer assignments than connections `Exhausted` cannot occur.

In `Trees`, four rows make a deletion with a child and a grandchild that came
late beside a row on a circle; three requests are the smallest number in which
an update is overtaken by another while a deletion runs. The four history
variables name what the code allows to go wrong, and the properties say that
nothing else does.

In `Gateway`, IDs are handed out once and a name can be taken again, so a
deleted user and its successor are two IDs with one name. `MaxSigns = 2` gives
a pair and its refresh; `AccessLife = 1`, `RefreshLife = 2` and three ticks let
a token expire while the other is good, and both. One connection is enough,
since requests meet in the rows alone, and `Elsewhere` changes these as requests
of other connections and servers do; a deadline that cuts a request short, a
kill and a restart with another secret all occur. `SessionsFromPasswords` asks for
a chain and not for a single step: starting with the pairs signed for passwords,
adding what was signed for a refresh token of a pair already there (of the same
user, under the same secret, not expired when it was looked at) reaches every
pair. `PromiseKept` is the refinement to `Service`.

In `Requests`, two requests are the smallest number that can mix messages in
a shared error value; three users on two slots make `Go` wait. The mutants of
this run are the mistakes the code avoids: setting a message in place,
answering without `c.Abort`, setting the trace header after `c.Next`, loading
results without waiting for the group. `NobodyMissing` speaks of the list alone;
a tree that is asked for with a filter panics for any client (`FilterTree`), and
`AnsweredOnce` says what becomes of such a request.

`CHECK_DEADLOCK FALSE` appears where clients may stop: once every request has
been used and no reload is modelled, nothing is left to do; in `MCConnPool` the
server itself may stop. `Gateway` is checked for deadlock: a process that ended
can be started.

One run refutes a statement of the repository (the finding in `PROJECT.json`
quotes it):

| Run | The sentence | What happens |
|---|---|---|
| `SyncAtomic` | a transaction makes the database operations and the synchronisation of Casbin atomic (`assignpermissions.go:16`) | a role is assigned the empty list; `RemoveFilteredPolicy` fails, which is logged and dropped; the transaction commits, the role has no rows and all its policies, and the client no error |

The run has one request, one failing call and `BatchAccepted = FALSE`. That a
rollback after `RemoveFilteredPolicy` cannot bring the policies back is the same
sentence once more; there the client at least gets an error, so the property
leaves it out.

With the built-in model (`e = !some(where (p.eft == deny))`) a request is
allowed unless a deny rule matches, and the code stores `allow` rules only. The
models are about which rules are stored and loaded, not about what `Enforce`
concludes from them.

Other differences between what the repository says and what its code does, met
while modelling; they have no run of their own, and the models contain them where
they are about what is modelled:

* Changes of permissions are said to take effect by themselves
  (`docs/features/02 permision.md:268`). Where the batch insert works, a reload applied
  between removal and addition makes `AddPolicies` answer false, nobody looks, and
  the policies are gone (`missed` in `RolePermissions`).
* `Update` "modifies an existing object" (`pkg/store/store.go:67`); when the
  row has been deleted since it was read, gorm's `Save` inserts it again. So do
  an update and a change of password that overlap the deletion of the user.
* Two overlapping override assignments to a role, or to a user, both succeed
  and leave the union (`store/role.go:63`, `assignrolestouser.go:12`).
* Between `RemoveFilteredPolicy` and `AddPolicies` the memory lacks policies
  the role keeps (`assignpermissions.go:61`).
* Deleting a role removes the g rules whose *user* is the role, that is none,
  and its p rules stay (`role/delete.go:26`).
* An update that overlaps a change of password brings the old one back
  (`user/update.go:53`).
* Lists are ordered by descending id and the cursor asks for greater ids, so the
  next page repeats the newest rows (`where.go:237`); the count keeps the
  condition of the cursor, so the total shrinks (`store.go:98`).
* The list of roles asks for more rows than its limit before it gives a token
  (`role/list.go:23`).
* The trees and the permissions of a role are read with a limit of 0, which
  gorm turns into `LIMIT 0`: they come back empty whatever the table holds
  (`listmenutree.go:25`, `listpermissiontree.go:25`, `getrolepermissions.go:14`). A
  filter writes to a nil map and panics (`where.go:222`), which is `FilterTree` of
  `Requests`.
* A menu can be put below itself, and cannot be moved back to the root: an
  empty `parentID` is not a UUID (`menu/update.go:20`).
* When the client leaves during the user list, the type assertion on a result
  that was not stored panics (`user/list.go:88`); `list = "panic"` in
  `UserList`.
* A refresh is said to end the old token (`docs/features/01 user.md:415`);
  old access and refresh tokens stay good until they expire, and a change of
  password ends no session.
* A listener that fails is said to crash the server (`http_server.go:45`,
  `server.go:12`); the error is logged and the process waits on without serving,
  until it is told to stop.
* The deferred `Shutdown` of telemetry gets the context that the signal has
  cancelled (`app/server.go:92`), so that providers may drop what they have not
  sent; when `Apply` fails, what it has set up is not shut down.
* A refused request is said to get 403 (`docs/features/02 permision.md:381`);
  `GetHTTPCode` answers 200 with code 20107, 502 to a request without a good
  token, and 200 with 20101 for an unknown page.
* A panic passes `Observability` before `Recovery` answers it, so these requests
  have no log entry.
* `ErrBind.WithDetails` writes to the value all requests share; `FromError`
  reads the message only, so no answer shows it (`AnswersAreOwn`).

## Fairness

`PolicyCache` has weak fairness on the two halves of a reload: the goroutine of
`StartAutoLoadPolicy` runs for as long as the server. `RolePermissions` has
weak fairness on the steps of each request (the Go scheduler runs every
goroutine; a transaction that waits for a lock is enabled once its holder has
ended) and on reloads. Nothing says that requests arrive, or that calls
succeed: the step of a request may be its failure.

`ListPaging` has weak fairness on the steps of a client that has begun to
follow a list, and of its requests. `Requests` has it on the goroutine of each
request and of the fan-out, which the Go scheduler runs; nothing says that the
client leaves. `Gateway` has it on main alone, with the ten seconds of
`GracefulStop`: requests may hang in the database, clients may keep their
connections, and the process still ends once it is told to (`StopsWhenTold`).
`ConnPool` has strong fairness on the steps of a request and on the reload,
since each of them may find the resource it waits for taken again: `database/sql`
hands a connection that is put back to the request that has waited longest, a
waiting writer of `sync.RWMutex` keeps new readers out, and PostgreSQL queues
lock requests. Nothing is assumed of failures or of clients that leave.
`UserRoles`, `UserAccounts` and `Trees` have no liveness properties.

## What is proved

TLAPS checks, for every value of the constants:

| Theorem | Statement |
|---|---|
| `PolicyCacheTyped`, `PolicyLagBounded` | types; `LagIsBounded /\ ReadLagIsBounded` |
| `InvariantHolds` | the inductive invariant `IInv` of `RolePermissions` |
| `RolePermissionsTyped` | types |
| `RowsResolve` | `ReferencesResolve` |
| `CodesUnique` | `RoleCodesUnique` |
| `PoliciesExplained` | `UnbackedRulesExplained` |
| `MissingExplained` | `MissingRulesExplained` |
| `OneAtATimeAllOrNone` | `AllOrNoPolicies`, where `OneAtATime` holds |
| `UserRolesInvariant`, `UserRolesTyped` | the inductive invariant `IInv` of `UserRolesProofs`; types |
| `UserRowsResolve`, `RulesAreAsRows` | `ReferencesResolve`, `RulesFollowRows` of `UserRoles` |
| `AccountsTyped`, `UsersUnique`, `RowsAreAsAsked` | types; `IdentifiersUnique`, `RowsAsAsked` |
| `TreesInvariant`, `TreesTyped` | the inductive invariant `IInv` of `Trees`; types |
| `DeletionsMeetLatecomers`, `OrphansAreStrays`, `CyclesAreBent` | `DeletionsHarmless`, `OrphansExplained`, `CyclesExplained` |
| `CascadeIsOfLatecomers` | the action property `OnlyLatecomersCascade` |
| `GatewayTyped` | types |
| `AuthenticationHolds`, `SessionsStartWithPasswords`, `LetThroughByGoodTokens` | `AuthenticationWitnessed`, `SessionsFromPasswords`, `TokensGood` |
| `TelemetryIsShut` | `TelemetryShut` |
| `RefusalsAreWitnessed` | the action property `RefusalsWitnessed` |
| `PromiseIsKept` | `PromiseKept`: `Gateway` implements `Service` |
| `RequestsInvariant`, `RequestsTyped` | the inductive invariant `IInv` of `RequestsProofs`; types |
| `AnswersOwn`, `EachAnsweredOnce`, `TracesTold`, `NobodyIsMissing` | `AnswersAreOwn`, `AnsweredOnce`, `TracesTell`, `NobodyMissing` |
| `PoolInvariant`, `PoolTyped` | the inductive invariant `IInv` of `ConnPoolProofs`; types |
| `NoConnectionLost`, `LockIsReleased` | `ConnectionsAccounted`, `LockAccounted` |
| `OnlyThePoolStops` | `StuckMeansExhausted` |
| `PagingTyped` | types |
| `LastPageShowsTheRest` | `NoTokenNothingLeft`, where the list of roles is not one of the lists |
| `NoSecondPageOfRoles` | `RolesHaveOnePage`: the list of roles never gives a token |
| `FollowingGoesUp` | `CursorsGrow`: each page starts above the one before |

Assumptions: `ResourceOf` is a function from permissions to resources or
`NoResource`; `NoResource` and `NoRole` are outside `Resources` and
`RoleCodes`; there is a server, a role ID and a role code. In
`UserAccounts`, `NoRow` and `Keep` are no row and no field, and there is a user
ID, a name, an address and a password. In `Trees`, `NoNode`
and `Keep` are no rows. In `Gateway`, the values that stand for "none" are
none of the real ones, there is a name and a password, an access token lives
for some time and no longer than its refresh token, and the connections are the
requests. In `Requests`, the lister is a request, and the list is finite.
In `UserRoles`, the code of a role is a function without collisions (the unique
index of table `role`), and there is a server and a user ID. In `ConnPool`, the
requests are finite in number, the pool has a connection, and the reloader and
`Nobody` are no requests. In `ListPaging`, the default page size is positive and
no larger than the maximum.

Two theorems have hypotheses of their own, which are what the run that checks
the property has in its `.cfg`. `OneAtATime` (`RolesSerial`): requests are
finite in number and come one at a time, no call fails, and nothing is deleted;
with overlaps, faults or deletions `AllOrNoPolicies` is false, and
`UnbackedRulesExplained` and `MissingRulesExplained` say what is true instead.
`"role" \notin Tables` (`MCListPaging`): `NoSecondPageOfRoles` is what holds of
the list of roles.

`LagIsBounded` is not inductive: an apply makes the memory what was read, so
the proof carries the same bound on the read in flight (`ReadLagIsBounded`).

`UnbackedRulesExplained` is not inductive either. A commit deletes the rows in
its `view`, and policies that stood for them must be shown to stand for other
rows. `IInv` adds what that takes:

* `RewrittenPoliciesBacked`: once a request has removed its role's policies,
  those that are there again stand for rows it does not delete;
* `LockInv`: of two requests on one role, one view contains the other, because
  the later DELETE saw what the earlier one saw and is still there; and two
  requests past their DELETE hold disjoint rows. So at most one of them deletes
  anything, and the row that stands in for a deleted one is not deleted by the
  other;
* `InsertedRowsAreNew`: a row inserted beside an equal committed one is one the
  same transaction deletes, so the commit replaces it;
* `RequestInv`, `RoleInv`: the code a request read is its role's code until the
  role is deleted, and no two roles share one;
* `ReferencesResolve`: inserted rows pin their role, so what is handed to
  `AddPolicies` is filed under the right code.

`MissingRulesExplained` is inductive on top of `IInv`. Most steps make no row
answerable that was not and take no policy away (`MissingKept`); a rollback makes
the rows in a request's `view` answerable again, and what they lack is what it
records; a commit removes the rows of its `view`, which are the ones that lack
policies, and the rows that come are rows of `Added` (`RequestInv`).

`RulesFollowRows` speaks of users nobody works on. `IInv` of `UserRolesProofs` says
what holds in between: each rule of a user is excused, or `Owed` by a request
that is in progress, or as the rows have it (`RulesInv`); what the earlier steps of a
request have left of rows, rules and arguments (`RequestAt`); and that two
requests about one user excuse everything of that user (`Overlap`), so that
`RequestAt` only has to survive steps of other users, the deletion of roles and
crashes. A deleted user does not come back (`RetiredInv`), which is why the last
step of a deletion may remove the default rule without looking.

`IInv` of `ConnPoolProofs` adds to the two properties that the reloader and the
requests are never at each other's labels (`Separate`). `ConnectionsAccounted` is a
sum over all processes: `SumMoves` shows that a step which moves the share of
one process by d moves the sum by d, and each action shows that it moves `free`
by as much. `free` staying within the pool is a consequence, not a guard.

`IInv` of `UserAccountsProofs` adds `ReadCurrent` to `RowsAsAsked`: the struct of a
request that nobody has overtaken is the row, so that saving it changes what was
asked for and nothing else; and `InsertsRows`: what is inserted is a whole row.

`IInv` of `Trees` adds `KnownIDs` (rows and requests name IDs that were handed
out), `ClearUntilOvertaken` (what an update found above the row it moves still
holds until another update moves rows) and `PermissionsFounded` (rows of
permissions, and the parents updates are about to save, never lead back). The
argument for circles goes by sets that are closed upward: `Clear(p, n)` says
that some set of rows holds p and what is above it without n, so attaching n to
p keeps a foundation, and no induction over paths is needed.

`IInv` of `Gateway` is two invariants that know nothing of each other, `LifeInv`
of the process and `RequestsInv` of what a request at each step has found out,
with `Coupled` between them: a request is in progress exactly where a connection
is busy. `NamesUnique` and `NamesKept` say that a saved row keeps its name;
without them a login could find another user than the one it claims. The
refinement maps each step of `ServerLife` to one of `Service` or to a stutter.

`IInv` of `RequestsProofs` says where in the chain a request can have been
answered (`AnswerInv`), that a span has set its header by then (`TraceInv`),
that shared values keep their message (`MessagesOwn`), and that while the
client stays every user of a list waits, is converted or is stored (`FanOutInv`).

`AllOrNoPolicies` needs an invariant beside `IInv` (`SerialInv`): a role that no
request works on has all its policies or none, the request in progress has the
rows it read and rewrites exactly the policies of its role (`Rewritten`), and
the others have not begun. Reloads of any server may come in between, so nothing
is known of the memories: a stale one makes `AddPolicies` answer false, which is
the "none".

`StuckMeansExhausted` says who waits for whom. `Waits` names, for each process,
what its next step needs and somebody else has: a connection, the read or the
write side of the lock, rows of its role. That one who waits cannot go on is
`WaitingStops`; that one who does not wait can is about ENABLED, which the
provers do not know, and is what `EveryRequestServed` rests on in its run. The
proof first shows that no connection is left (`StuckMeansNoneFree`): with one to
spare, whoever holds the lock would go on, so the lock is free, and a
writer that waits, or else the reload, would. Then the sum of `ConnectionsAccounted`
tells where the connections are (`StuckMeansPoolInTx`): those who hold one for a
statement do not wait, so the transactions have the whole pool. They cannot all
wait for rows, which only a transaction past its DELETE holds (`StuckIsExhausted`).

The lists need arithmetic of sets: the n greatest of S (`Newest`) are n, or all
of S. The proof counts what is above the least row of the page
(`NewestIsShort`) and above the greatest row left out (`NewestIsFull`). That
these exist is `GreatestExists`, an induction in disguise: the sets of what is
above each element are ordered by inclusion, which is well-founded on finite
sets, and what is above a greatest element is the minimal one. `CursorsGrow` is
the safety half of `PagesEnd`: ids are bounded, so a cursor that only grows
stops.

The proof about `RolePermissions` has one lemma per action; the cascading deletions share
`CascadeKeepsInv`, the ways to fail share `AbortKeepsInv`. `IInv` was checked
with TLC on the `RolesRace` instance first.

Every safety property of a passing run is a theorem. Only model-checked are the
liveness properties, which are out of the prover's reach: `MemoriesConverge`,
both `EveryRequestAnswered`, `PagesEnd`, `EveryRequestServed` and
`StopsWhenTold`. What is proved of the safety behind them: a memory that has
seen every write is the table (`PolicyLagBounded`), cursors grow
(`FollowingGoesUp`), and requests that wait for one another leave the pool as
the only thing to wait for (`OnlyThePoolStops`).

## What is not modelled

* The conversion of rows to trees (`pkg/conversion`): what reaches it is empty or
  flat. `ListMenuTree` and `ListPermissionTree` read with `LIMIT 0`,
  `GetUserMenuTree` asks for the user with the empty ID, and `buildPermissionTree` makes
  a list of single nodes.
* What two overlapping requests about one user leave of its rows and g rules:
  `RulesFollowRows` excuses that user from then on.
* What validators accept, the copying of fields between models and messages,
  and `ResponseMiddleware`, which is not installed (`pkg/core`).
* How `Enforce` evaluates a request: `Sessions` lets it answer anything, and the
  modules about policies say what it answers from.
* Reads that take one statement and change nothing, and columns on which nothing
  modelled depends; `roleBiz.Update` writes such columns only.
* Loggers, metrics and exporters beyond their set-up, shutdown and the log entry
  of a request; configuration, flags and error texts.
* The JWT store and authentication library (`pkg/authn`), of which the
  application uses bcrypt alone, and the gRPC server and gateway, which no
  binary starts.
* Generated code, protocol buffers and OpenAPI documents: more than half of the
  lines under `src/`.

What is left to do: abstract specifications of the policies (an atomic grant table)
beside the one of the process; a second server in `UserRoles`, where the state
space allows it.
