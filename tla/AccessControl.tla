---- MODULE AccessControl ----
(***************************************************************************)
(* Users, their roles and tokens (services/auth_service.py,                *)
(* repositories/user_repository.py, auth/jwt_handler.py), the context a    *)
(* request acts under (dependencies.get_current_user), and the execution   *)
(* of its query with the filter of AccessPolicy over a query cache that    *)
(* all users share (graph/nodes/graph_executor.py).                        *)
(*                                                                         *)
(* A call of the service reads the user, waits for the database and goes   *)
(* on with what it read, so logins, refreshes and the creation of a user   *)
(* are two steps; a Cypher statement is one.  Administration may happen    *)
(* between any two steps.                                                  *)
(***************************************************************************)
EXTENDS AccessPolicy

CONSTANTS
    Ids,            \* the ids of users (uuid4)
    Names,          \* usernames, in several cases
    Passwords,
    RoleNames,      \* role names as operators write them, in several cases
    RoleLists,      \* the lists of roles a user may be created with
    Departments,
    Calls,          \* calls of the service under way
    Requests,       \* questions asked
    Questions,
    Statements,     \* the Cypher statements the LLM may write
    Writes,         \* those that validate_read_only_cypher refuses
    Rows,           \* Rows[s]: the rows of a read-only statement
    Nobody, NoStatement,
    AccessLife, RefreshLife,    \* lifetimes of the tokens, in ticks
    MaxClock, MaxEdits, MaxTokens   \* bounds of the clock, of administration and of tokens

ASSUME LifeAssumption == /\ AccessLife \in Nat \ {0} /\ RefreshLife \in Nat \ {0}
                         /\ MaxClock \in Nat /\ MaxEdits \in Nat /\ MaxTokens \in Nat

ASSUME RoleAssumption == /\ \A r \in RoleNames : Lower(r) \in RoleNames
                         /\ DefaultRoles \subseteq RoleNames /\ "active" \notin RoleNames

ASSUME DataAssumption == /\ Writes \subseteq Statements /\ NoStatement \notin Statements
                         /\ NoDepartment \in Departments
                         /\ \E d \in Departments : d # NoDepartment

\* What _is_node and _is_relationship tell apart: a map with a list of labels counts as a node;
\* lists, paths and other maps are nested, whatever stands inside them
Shape == [node |-> {"kind", "labels", "props"}, rel |-> {"kind", "type", "props"},
          scalar |-> {"kind", "value"}, nested |-> {"kind", "items"}]

ASSUME RowsAssumption ==
    \A s \in Statements : \A row \in Rows[s] : \A i \in DOMAIN row :
        /\ row[i].kind \in DOMAIN Shape /\ DOMAIN row[i] = Shape[row[i].kind]
        /\ row[i].kind = "node" => row[i].labels \in Seq(STRING)
        /\ row[i].kind \in {"node", "rel"} => DOMAIN row[i].props \subseteq Props

ASSUME NobodyAssumption == Nobody \notin Ids \cup Names /\ RoleLists \subseteq SUBSET RoleNames

VARIABLES
    demo,       \* AUTH_ENABLED=false
    clock,
    users,      \* the User nodes: id -> [name, password, roles, department, active]
    tokens,     \* the tokens issued
    calls,
    requests,
    told,       \* request -> the rows it was told
    cache,      \* question -> the statement cached for it
    lost,       \* history: when a user last lost a role, or the account its activity
    edits       \* number of administrative operations

vars == <<demo, clock, users, tokens, calls, requests, told, cache, lost, edits>>

Absent == [name |-> Nobody, password |-> Nobody, roles |-> {}, department |-> NoDepartment, active |-> FALSE]

Users == [name: Names, password: Passwords, roles: SUBSET RoleNames,
          department: Departments, active: {TRUE, FALSE}]

Tokens == [type: {"access", "refresh"}, user: Ids, roles: SUBSET RoleNames,
           department: Departments, read: Nat, issued: Nat, exp: Nat]

Exists(u) == users[u].name # Nobody

\* What a user holds: the roles, and "active" while the account is
Holds(user) == user.roles \cup (IF user.active = TRUE THEN {"active"} ELSE {})

IdleCall == [pc |-> "idle"]

Init ==
    /\ demo \in {TRUE, FALSE}
    /\ clock = 0
    /\ users = [u \in Ids |-> Absent]
    /\ tokens = {}
    /\ calls = [c \in Calls |-> IdleCall]
    /\ requests = [r \in Requests |-> [stage |-> "new"]]
    /\ told = [r \in Requests |-> {}]
    /\ cache = [q \in Questions |-> NoStatement]
    /\ lost = [u \in Ids |-> [x \in RoleNames \cup {"active"} |-> 0]]
    /\ edits = 0

Tick ==
    /\ clock < MaxClock
    /\ clock' = clock + 1
    /\ UNCHANGED <<demo, users, tokens, calls, requests, told, cache, lost, edits>>

(***************************************************************************)
(* Writing a user: all that changes of the User node and its HAS_ROLE      *)
(* relationships goes through here, which also keeps the history.          *)
(***************************************************************************)
SetUser(u, user) ==
    /\ users' = [users EXCEPT ![u] = user]
    /\ lost' = [lost EXCEPT ![u] =
                  [x \in RoleNames \cup {"active"} |->
                      IF x \in Holds(users[u]) \ Holds(user) THEN clock ELSE @[x]]]

\* (bound: users are administered where they matter, with AUTH_ENABLED, at most MaxEdits times)
Edited ==
    /\ demo = FALSE /\ edits < MaxEdits
    /\ edits' = edits + 1
    /\ UNCHANGED <<demo, clock, tokens, requests, told, cache>>

\* An operation that changes nothing is not a step
Administered == users' # users /\ Edited /\ UNCHANGED calls

\* The unique constraint on User.username, which tells cases apart
NameFree(u, name) == \A v \in Ids \ {u} : users[v].name # name

(***************************************************************************)
(* create_user: the name is looked up in any case, the password is hashed, *)
(* and then the node is created; a ConstraintError ends the call.          *)
(***************************************************************************)
FoundByName(name) == {u \in Ids : Exists(u) /\ Lower(users[u].name) = Lower(name)}

CreateCheck(c) ==
    /\ calls[c].pc = "idle"
    /\ \E name \in Names, password \in Passwords, roles \in RoleLists, d \in Departments :
         /\ FoundByName(name) = {}
         /\ calls' = [calls EXCEPT ![c] =
                [pc |-> "create", name |-> name, password |-> password,
                 roles |-> IF roles = {} THEN {"viewer"} ELSE roles, department |-> d]]
    /\ Edited
    /\ UNCHANGED <<users, lost>>

CreateWrite(c) ==
    /\ calls[c].pc = "create"
    /\ calls' = [calls EXCEPT ![c] = IdleCall]
    /\ IF NameFree(Nobody, calls[c].name)
       THEN \E u \in {v \in Ids : ~Exists(v)} :
              SetUser(u, [name |-> calls[c].name, password |-> calls[c].password,
                          roles |-> calls[c].roles, department |-> calls[c].department,
                          active |-> TRUE])
       ELSE UNCHANGED <<users, lost>>
    /\ UNCHANGED <<demo, clock, tokens, requests, told, cache, edits>>

UpdateUserMutant(u) ==
    /\ \/ \E p \in Passwords : SetUser(u, [users[u] EXCEPT !.password = p])
       \/ \E b \in {TRUE, FALSE} : SetUser(u, [users[u] EXCEPT !.active = b])
    /\ Administered

UpdateUser(u) ==
    /\ Exists(u)
    /\ \/ \E name \in Names : NameFree(u, name) /\ SetUser(u, [users[u] EXCEPT !.name = name])
       \/ \E p \in Passwords : SetUser(u, [users[u] EXCEPT !.password = p])
       \/ \E d \in Departments : SetUser(u, [users[u] EXCEPT !.department = d])
       \/ \E b \in {TRUE, FALSE} : SetUser(u, [users[u] EXCEPT !.active = b])
    /\ Administered

\* assign_role lowers the case of the name, remove_role takes it as it is
AssignRole(u, role) ==
    /\ Exists(u)
    /\ SetUser(u, [users[u] EXCEPT !.roles = @ \cup {Lower(role)}])
    /\ Administered

RemoveRole(u, role) ==
    /\ Exists(u) /\ role \in users[u].roles
    /\ SetUser(u, [users[u] EXCEPT !.roles = @ \ {role}])
    /\ Administered

\* seed_admin_user, run at deployment: MERGE by the exact name
SeedAdmin(name, password) ==
    /\ \/ \E u \in Ids : /\ users[u].name = name
                         /\ SetUser(u, [users[u] EXCEPT !.roles = @ \cup {"admin"}])
       \/ /\ NameFree(Nobody, name)
          /\ \E u \in Ids : /\ ~Exists(u)
                            /\ SetUser(u, [name |-> name, password |-> password, roles |-> {"admin"},
                                           department |-> NoDepartment, active |-> TRUE])
    /\ Administered

(***************************************************************************)
(* login and refresh_token: the user is read, the answer is refused or the *)
(* tokens are made from what was read.  A refused call changes nothing and *)
(* is not a step.                                                          *)
(***************************************************************************)
Issuing(pc, u) ==
    [pc |-> pc, user |-> u, roles |-> users[u].roles,
     department |-> users[u].department, read |-> clock]

Login(c) ==
    /\ calls[c].pc = "idle" /\ Cardinality(tokens) < MaxTokens
    /\ \E name \in Names, password \in Passwords : \E u \in FoundByName(name) :
         /\ users[u].active = TRUE
         /\ users[u].password = password
         /\ calls' = [calls EXCEPT ![c] = Issuing("login", u)]
    /\ UNCHANGED <<demo, clock, users, tokens, requests, told, cache, lost, edits>>

Valid(token, type) == token.exp > clock /\ token.type = type

RefreshMutant(c) ==
    /\ calls[c].pc = "idle" /\ Cardinality(tokens) < MaxTokens
    /\ \E t \in tokens :
         /\ Valid(t, "refresh")
         /\ Exists(t.user)
         /\ calls' = [calls EXCEPT ![c] = Issuing("refresh", t.user)]
    /\ UNCHANGED <<demo, clock, users, tokens, requests, told, cache, lost, edits>>

Refresh(c) ==
    /\ calls[c].pc = "idle" /\ Cardinality(tokens) < MaxTokens
    /\ \E t \in tokens :
         /\ Valid(t, "refresh")
         /\ Exists(t.user) /\ users[t.user].active = TRUE
         /\ calls' = [calls EXCEPT ![c] = Issuing("refresh", t.user)]
    /\ UNCHANGED <<demo, clock, users, tokens, requests, told, cache, lost, edits>>

\* The refresh token of a login names the user only; a refresh gives the old one back
NewToken(call, type, roles, department, life) ==
    [type |-> type, user |-> call.user, roles |-> roles, department |-> department,
     read |-> call.read, issued |-> clock, exp |-> clock + life]

IssueMutant(c) ==
    /\ calls[c].pc \in {"login", "refresh"}
    /\ tokens' = tokens
        \cup {NewToken(calls[c], "access", calls[c].roles, calls[c].department, RefreshLife)}
        \cup IF calls[c].pc = "login"
             THEN {NewToken(calls[c], "refresh", {}, NoDepartment, RefreshLife)} ELSE {}
    /\ calls' = [calls EXCEPT ![c] = IdleCall]
    /\ UNCHANGED <<demo, clock, users, requests, told, cache, lost, edits>>

Issue(c) ==
    /\ calls[c].pc \in {"login", "refresh"}
    /\ tokens' = tokens
        \cup {NewToken(calls[c], "access", calls[c].roles, calls[c].department, AccessLife)}
        \cup IF calls[c].pc = "login"
             THEN {NewToken(calls[c], "refresh", {}, NoDepartment, RefreshLife)} ELSE {}
    /\ calls' = [calls EXCEPT ![c] = IdleCall]
    /\ UNCHANGED <<demo, clock, users, requests, told, cache, lost, edits>>

(***************************************************************************)
(* A question: the context of the user, the statement from the cache or    *)
(* from the LLM, its execution, the filter, and the cache.                 *)
(***************************************************************************)
Asked(q, roles, department, user, read, issued) ==
    [stage |-> "asked", question |-> q, roles |-> roles, department |-> department,
     user |-> user, read |-> read, issued |-> issued, at |-> clock,
     statement |-> NoStatement, hit |-> FALSE]

\* AuthService.get_current_user: the roles are those of the token
Authenticate(r, q) ==
    /\ demo = FALSE
    /\ requests[r].stage = "new"
    /\ \E t \in tokens :
         /\ Valid(t, "access")
         /\ requests' = [requests EXCEPT ![r] = Asked(q, t.roles, t.department, t.user, t.read, t.issued)]
    /\ UNCHANGED <<demo, clock, users, tokens, calls, told, cache, lost, edits>>

\* AUTH_ENABLED=false: the role of the X-Demo-Role header, or the anonymous administrator
ManagerDepartment == CHOOSE d \in Departments : d # NoDepartment

Demonstrate(r, q) ==
    /\ demo = TRUE
    /\ requests[r].stage = "new"
    /\ \E role \in DefaultRoles :
         requests' = [requests EXCEPT ![r] =
            Asked(q, {role}, IF role = "manager" THEN ManagerDepartment ELSE NoDepartment,
                  Nobody, clock, clock)]
    /\ UNCHANGED <<demo, clock, users, tokens, calls, told, cache, lost, edits>>

Written(request, s, hit) == [request EXCEPT !.stage = "written", !.statement = s, !.hit = hit]

\* cache_checker and cypher_generator: any statement the LLM may write, or the cached one
Write(r) ==
    /\ requests[r].stage = "asked"
    /\ LET cached == cache[requests[r].question] IN
         \/ /\ cached # NoStatement
            /\ requests' = [requests EXCEPT ![r] = Written(@, cached, TRUE)]
         \/ /\ cached = NoStatement
            /\ \E s \in Statements :
                 requests' = [requests EXCEPT ![r] = Written(@, s, FALSE)]
    /\ UNCHANGED <<demo, clock, users, tokens, calls, told, cache, lost, edits>>

\* What the filter leaves of a statement's rows
Answers ==
    [s \in Statements |-> [d \in Departments |->
        [roles \in SUBSET RoleNames |-> ApplyAccessPolicy(roles, d, Rows[s])]]]

Answer(request) ==
    IF "admin" \in request.roles THEN Rows[request.statement]
    ELSE Answers[request.statement][request.department][request.roles]

ExecuteMutant(r) ==
    /\ requests[r].stage = "written" /\ requests[r].statement \notin Writes
    /\ told' = [told EXCEPT ![r] = IF requests[r].hit = TRUE THEN Rows[requests[r].statement]
                                ELSE Answer(requests[r])]
    /\ requests' = [requests EXCEPT ![r].stage = "told"]
    /\ cache' = IF told'[r] # {} /\ requests[r].hit = FALSE
                THEN [cache EXCEPT ![requests[r].question] = requests[r].statement]
                ELSE cache
    /\ UNCHANGED <<demo, clock, users, tokens, calls, lost, edits>>

\* GraphExecutorNode._process on a read-only statement
Execute(r) ==
    /\ requests[r].stage = "written" /\ requests[r].statement \notin Writes
    /\ told' = [told EXCEPT ![r] = Answer(requests[r])]
    /\ requests' = [requests EXCEPT ![r].stage = "told"]
    /\ cache' = IF told'[r] # {} /\ requests[r].hit = FALSE
                THEN [cache EXCEPT ![requests[r].question] = requests[r].statement]
                ELSE cache
    /\ UNCHANGED <<demo, clock, users, tokens, calls, lost, edits>>

\* ... on a statement it refuses, or that the database fails to run: nothing is told or cached,
\* and the request is over
Fail(r) ==
    /\ requests[r].stage = "written"
    /\ requests' = [requests EXCEPT ![r] = [stage |-> "new"]]
    /\ UNCHANGED <<demo, clock, users, tokens, calls, told, cache, lost, edits>>

Administer ==
    \E u \in Ids :
        \/ UpdateUser(u)
        \/ \E role \in RoleNames : AssignRole(u, role) \/ RemoveRole(u, role)

Next ==
    \/ Tick
    \/ \E c \in Calls : CreateCheck(c) \/ CreateWrite(c) \/ Login(c) \/ Refresh(c) \/ Issue(c)
    \/ Administer
    \/ \E name \in Names, p \in Passwords : SeedAdmin(name, p)
    \/ \E r \in Requests :
         \/ \E q \in Questions : Authenticate(r, q) \/ Demonstrate(r, q)
         \/ Write(r) \/ Execute(r) \/ Fail(r)

Spec == Init /\ [][Next]_vars

(***************************************************************************)
(* Properties.                                                             *)
(***************************************************************************)
CallStates ==
    [pc: {"idle"}]
    \cup [pc: {"create"}, name: Names, password: Passwords, roles: SUBSET RoleNames, department: Departments]
    \cup [pc: {"login", "refresh"}, user: Ids, roles: SUBSET RoleNames, department: Departments, read: Nat]

RequestStates ==
    [stage: {"new"}]
    \cup [stage: {"asked", "written", "told"}, question: Questions,
          roles: SUBSET RoleNames, department: Departments, user: Ids \cup {Nobody},
          read: Nat, issued: Nat, at: Nat, statement: Statements \cup {NoStatement}, hit: {TRUE, FALSE}]

\* The state is well-formed: users, tokens, calls, the cache and the clock hold what the code puts there.
TypeOK ==
    /\ demo \in {TRUE, FALSE} /\ clock \in Nat /\ edits \in Nat
    /\ users \in [Ids -> Users \cup {Absent}]
    /\ tokens \subseteq Tokens
    /\ calls \in [Calls -> CallStates]
    /\ cache \in [Questions -> Statements \cup {NoStatement}]
    /\ lost \in [Ids -> [RoleNames \cup {"active"} -> Nat]]
    /\ requests \in [Requests -> RequestStates]
    /\ DOMAIN told = Requests

HeldAt(u, things, read) == \A x \in things : x \in Holds(users[u]) \/ lost[u][x] >= read

\* Every token tells what its user held when it was read from the database: a role the user
\* no longer has was taken away, and an account was disabled, at that moment or after it.  So
\* neither a login nor a refresh, however late it resumes, brings back what was lost before it
\* (login, refresh_token: the user is read again and checked before a token is made of it).
TokensTellWhatWasHeld ==
    \A t \in tokens : Exists(t.user) /\ HeldAt(t.user, t.roles \cup {"active"}, t.read)

\* A request acts on roles its user held when the token's user was read, and for no longer
\* than the lifetime of an access token after that token was issued (get_current_user: the
\* roles of the token are not looked up again, so the lifetime is all that bounds how long
\* a removed role or a disabled account goes on working).
RequestsOnRecentRoles ==
    \A r \in Requests : requests[r].stage # "new" /\ requests[r].user # Nobody =>
        /\ HeldAt(requests[r].user, requests[r].roles \cup {"active"}, requests[r].read)
        /\ requests[r].at < requests[r].issued + AccessLife

Filtered(r) == requests[r].stage = "told" /\ "admin" \notin requests[r].roles

GrantsLabel(role, label) == label \in DOMAIN RolePolicies[role].nodes
GrantsProp(role, label, p) == GrantsLabel(role, label) /\ p \in RolePolicies[role].nodes[label].props
GrantsRelProp(role, type, p) ==
    type \in DOMAIN RolePolicies[role].relRules => p \in RolePolicies[role].relRules[type]

\* Of each column of a row that is a node or a relationship, whatever a request that is not an
\* administrator's is told was granted by one of its own roles: each label and each property of
\* the node, the relationship and each of its properties, whoever wrote the statement it found
\* in the shared cache (_apply_access_policy runs after the cache, on the rows).  Any other
\* column - a list, a path, a map, a single value such as a property the statement returns by
\* itself - is told as the database gave it, with all that stands inside it.
ColumnsAreGranted ==
    \A r \in {x \in Requests : Filtered(x)} : \A row \in told[r] : \A i \in DOMAIN row :
        /\ IsNode(row[i]) =>
             /\ \A k \in DOMAIN row[i].labels :
                    \E role \in Known(requests[r].roles) : GrantsLabel(role, row[i].labels[k])
             /\ \A p \in DOMAIN row[i].props :
                    \E role \in Known(requests[r].roles) : GrantsProp(role, row[i].labels[1], p)
        /\ IsRel(row[i]) =>
             /\ \E role \in Known(requests[r].roles) : row[i].type \in RolePolicies[role].rels
             /\ \A p \in DOMAIN row[i].props :
                    \E role \in Known(requests[r].roles) : GrantsRelProp(role, row[i].type, p)
        /\ ~IsNode(row[i]) /\ ~IsRel(row[i]) =>
             \E given \in Rows[requests[r].statement] : i \in DOMAIN given /\ given[i] = row[i]

\* The schema a request's prompt shows covers the nodes and relationships that are columns of
\* what the request is told: no label and no relationship type of theirs had been left out of
\* the prompt as forbidden, whichever user's prompt the cached statement came from
\* (_filter_schema_for_policy in the generator against _apply_access_policy in the executor).
\* Of what stands inside a list, a path or a map it says nothing: the code does not look there.
ColumnsAreInSchema ==
    \A r \in {x \in Requests : Filtered(x)} :
        LET schema == FilteredSchema(requests[r].roles, [labels |-> Labels, rels |-> RelTypes]) IN
        \A row \in told[r] : \A i \in DOMAIN row :
            /\ IsNode(row[i]) => \A k \in DOMAIN row[i].labels : row[i].labels[k] \in schema.labels
            /\ IsRel(row[i]) => row[i].type \in schema.rels

\* A user all of whose roles see a label in their own department only is told no row with a
\* node of that label as a column whose columns name other departments and not the user's (D3,
\* in any case of letters; a department inside a list, a path or a map is not looked at).
OwnDepartment ==
    \A r \in {x \in Requests : Filtered(x)} : \A row \in told[r] : \A i \in DOMAIN row :
        LET granting == {role \in Known(requests[r].roles) : GrantsLabel(role, row[i].labels[1])} IN
        /\ IsNode(row[i])
        /\ \A role \in granting : RolePolicies[role].nodes[row[i].labels[1]].scope = "department"
        /\ requests[r].department # NoDepartment
        => RowDepartments(row) = {} \/ Lower(requests[r].department) \in RowDepartments(row)

\* Roles add up: what each role of a request would be told alone is among what the request is
\* told, with at least the same properties of every node (get_access_policy: the most permissive
\* role wins; properties of relationships are left out here: a role without a rule for a type
\* shows all of them alone, and none beside a role that has one).
RolesAddUp ==
    \A r \in {x \in Requests : Filtered(x)} : \A role \in requests[r].roles :
        \A row \in Answers[requests[r].statement][requests[r].department][{role}] :
            \E more \in told[r] :
                /\ DOMAIN more = DOMAIN row
                /\ \A i \in DOMAIN row :
                     IsNode(row[i]) => /\ IsNode(more[i]) /\ more[i].labels = row[i].labels
                                       /\ DOMAIN row[i].props \subseteq DOMAIN more[i].props

\* Roles and activity outlive their removal only in tokens and requests that began before it.
RolesRecent == TypeOK /\ TokensTellWhatWasHeld /\ RequestsOnRecentRoles

\* On the columns the filter of the rows and the filter of the schema agree, and both keep to
\* the department.
ToldWithinLimits == ColumnsAreInSchema /\ OwnDepartment

\* Administration that takes no role away takes nothing away: the labels, the properties of
\* nodes, the relationships and the permissions the user has stay (assign_role next to
\* get_access_policy and permissions_for_roles).
RoleGainKeeps ==
    [][\A u \in Ids : Exists(u) /\ users[u].roles # users'[u].roles
                        /\ users[u].roles \subseteq users'[u].roles =>
          LET before == users[u].roles
              after == users'[u].roles
          IN  /\ AllowedLabels(before) \subseteq AllowedLabels(after)
              /\ AllowedRels(before) \subseteq AllowedRels(after)
              /\ \A l \in AllowedLabels(before) :
                    /\ AllowedProps(before, l) \subseteq AllowedProps(after, l)
                    /\ MergedScope(before, l) = "all" => MergedScope(after, l) = "all"
              /\ \A p \in UNION {RolePermissions[x] : x \in DefaultRoles} :
                    HasPermission(before, p) => HasPermission(after, p)]_users
====
