---- MODULE AccessControlProofs ----
(***************************************************************************)
(* Proofs about AccessControl: type correctness; that tokens and requests  *)
(* act on roles their users held when they were read; that a request is    *)
(* told only what one of its roles grants; and that gaining a role takes   *)
(* nothing away.                                                           *)
(***************************************************************************)
EXTENDS AccessControl, TLAPS

Things == RoleNames \cup {"active"}

LEMMA ActiveThing == \A roles \in SUBSET RoleNames : roles \cup {"active"} \subseteq Things
BY DEF Things

LEMMA SetUserTypes ==
    ASSUME TypeOK, NEW u \in Ids, NEW user \in Users, SetUser(u, user)
    PROVE  /\ users' \in [Ids -> Users \cup {Absent}]
           /\ lost' \in [Ids -> [RoleNames \cup {"active"} -> Nat]]
<1>1. users' \in [Ids -> Users \cup {Absent}]
  BY DEF TypeOK, SetUser
<1> DEFINE new == [x \in RoleNames \cup {"active"} |->
                      IF x \in Holds(users[u]) \ Holds(user) THEN clock ELSE lost[u][x]]
<1>2. new \in [RoleNames \cup {"active"} -> Nat]
  BY DEF TypeOK
<1>3. lost' = [lost EXCEPT ![u] = new]
  BY DEF SetUser
<1> QED
  BY <1>1, <1>2, <1>3 DEF TypeOK

LEMMA ExistsTypes ==
    ASSUME TypeOK, NEW u \in Ids, Exists(u)
    PROVE  users[u] \in Users
BY NobodyAssumption DEF TypeOK, Exists, Absent

LEMMA EditedTypes ==
    ASSUME TypeOK, Edited, users' \in [Ids -> Users \cup {Absent}], calls' \in [Calls -> CallStates],
           lost' \in [Ids -> [RoleNames \cup {"active"} -> Nat]]
    PROVE  TypeOK'
<1>1. edits' \in Nat
  BY DEF TypeOK, Edited
<1>2. UNCHANGED <<demo, clock, tokens, requests, told, cache>>
  BY DEF Edited
<1> QED
  BY <1>1, <1>2 DEF TypeOK

LEMMA AdministeredTypes ==
    ASSUME TypeOK, Administered, NEW u \in Ids, NEW user \in Users, SetUser(u, user)
    PROVE  TypeOK'
<1>1. Edited /\ calls' \in [Calls -> CallStates]
  BY DEF Administered, TypeOK
<1> QED
  BY <1>1, SetUserTypes, EditedTypes

LEMMA IssuingTypes ==
    ASSUME TypeOK, NEW c \in Calls, NEW u \in Ids, Exists(u), NEW pc \in {"login", "refresh"},
           calls' = [calls EXCEPT ![c] = Issuing(pc, u)]
    PROVE  calls' \in [Calls -> CallStates]
<1>1. users[u] \in Users
  BY ExistsTypes
<1>2. Issuing(pc, u) \in CallStates
  BY <1>1 DEF TypeOK, Issuing, CallStates, Users
<1> QED
  BY <1>2 DEF TypeOK

LEMMA AskedTypes ==
    ASSUME TypeOK, NEW q \in Questions, NEW roles \in SUBSET RoleNames, NEW d \in Departments,
           NEW user \in Ids \cup {Nobody}, NEW read \in Nat, NEW issued \in Nat,
           NEW r \in Requests,
           requests' = [requests EXCEPT ![r] = Asked(q, roles, d, user, read, issued)],
           UNCHANGED <<demo, clock, users, tokens, calls, told, cache, lost, edits>>
    PROVE  TypeOK'
BY DEF TypeOK, RequestStates, Asked

LEMMA UpdateSets ==
    ASSUME TypeOK, NEW u \in Ids, UpdateUser(u)
    PROVE  \E user \in Users : SetUser(u, user)
<1>1. users[u] \in Users
  BY ExistsTypes DEF UpdateUser
<1>2. CASE \E name \in Names : NameFree(u, name) /\ SetUser(u, [users[u] EXCEPT !.name = name])
  BY <1>1, <1>2 DEF Users
<1>3. CASE \E p \in Passwords : SetUser(u, [users[u] EXCEPT !.password = p])
  BY <1>1, <1>3 DEF Users
<1>4. CASE \E d \in Departments : SetUser(u, [users[u] EXCEPT !.department = d])
  BY <1>1, <1>4 DEF Users
<1>5. CASE \E b \in {TRUE, FALSE} : SetUser(u, [users[u] EXCEPT !.active = b])
  BY <1>1, <1>5 DEF Users
<1> QED
  BY <1>2, <1>3, <1>4, <1>5 DEF UpdateUser

LEMMA SeedSets ==
    ASSUME TypeOK, NEW name \in Names, NEW p \in Passwords, SeedAdmin(name, p)
    PROVE  \E u \in Ids : \E user \in Users : SetUser(u, user)
<1>1. ASSUME NEW u \in Ids, users[u].name = name,
             SetUser(u, [users[u] EXCEPT !.roles = @ \cup {"admin"}])
      PROVE  \E user \in Users : SetUser(u, user)
  <2>1. users[u] \in Users
    BY <1>1, ExistsTypes, NobodyAssumption DEF Exists
  <2>2. [users[u] EXCEPT !.roles = @ \cup {"admin"}] \in Users
    BY <2>1, RoleAssumption DEF Users, DefaultRoles
  <2> QED
    BY <1>1, <2>2
<1>2. [name |-> name, password |-> p, roles |-> {"admin"}, department |-> NoDepartment,
       active |-> TRUE] \in Users
  BY RoleAssumption, DataAssumption DEF Users, DefaultRoles
<1> QED
  BY <1>1, <1>2 DEF SeedAdmin

\* The state stays well-formed whatever the users, the tokens' lifetimes and the rows are (TypeOK).
THEOREM TypeCorrect == Spec => []TypeOK
<1>1. Init => TypeOK
  <2> SUFFICES ASSUME Init PROVE TypeOK
    OBVIOUS
  <2>1. clock \in Nat /\ edits \in Nat
    BY DEF Init
  <2>2. lost \in [Ids -> [RoleNames \cup {"active"} -> Nat]]
    BY DEF Init
  <2>3. calls \in [Calls -> CallStates] /\ requests \in [Requests -> RequestStates]
    BY DEF Init, CallStates, RequestStates, IdleCall
  <2> QED
    BY <2>1, <2>2, <2>3 DEF Init, TypeOK
<1>2. TypeOK /\ [Next]_vars => TypeOK'
  <2> SUFFICES ASSUME TypeOK, [Next]_vars PROVE TypeOK'
    OBVIOUS
  <2>1. CASE Tick
    <3>1. clock' \in Nat
      BY <2>1 DEF Tick, TypeOK
    <3>2. UNCHANGED <<demo, users, tokens, calls, requests, told, cache, lost, edits>>
      BY <2>1 DEF Tick
    <3> QED
      BY <3>1, <3>2 DEF TypeOK
  <2>2. ASSUME NEW c \in Calls, CreateCheck(c) PROVE TypeOK'
    <3>1. PICK name \in Names, password \in Passwords, roles \in RoleLists, d \in Departments :
            calls' = [calls EXCEPT ![c] =
                [pc |-> "create", name |-> name, password |-> password,
                 roles |-> IF roles = {} THEN {"viewer"} ELSE roles, department |-> d]]
      BY <2>2 DEF CreateCheck
    <3>2. (IF roles = {} THEN {"viewer"} ELSE roles) \in SUBSET RoleNames
      BY RoleAssumption, NobodyAssumption DEF DefaultRoles
    <3>3. calls' \in [Calls -> CallStates]
      BY <3>1, <3>2 DEF TypeOK, CallStates
    <3> QED
      BY <2>2, <3>3, EditedTypes DEF CreateCheck, TypeOK
  <2>3. ASSUME NEW c \in Calls, CreateWrite(c) PROVE TypeOK'
    <3>1. calls' \in [Calls -> CallStates]
      BY <2>3 DEF CreateWrite, TypeOK, CallStates, IdleCall
    <3>2. CASE UNCHANGED <<users, lost>>
      BY <2>3, <3>1, <3>2 DEF CreateWrite, TypeOK
    <3>3. ASSUME NEW u \in Ids,
                 SetUser(u, [name |-> calls[c].name, password |-> calls[c].password,
                             roles |-> calls[c].roles, department |-> calls[c].department,
                             active |-> TRUE])
          PROVE  TypeOK'
      <4>1. calls[c] \in CallStates /\ calls[c].pc = "create"
        BY <2>3 DEF CreateWrite, TypeOK
      <4>2. [name |-> calls[c].name, password |-> calls[c].password, roles |-> calls[c].roles,
             department |-> calls[c].department, active |-> TRUE] \in Users
        BY <4>1 DEF CallStates, Users
      <4> QED
        BY <2>3, <3>1, <3>3, <4>2, SetUserTypes DEF CreateWrite, TypeOK
    <3> QED
      BY <2>3, <3>2, <3>3 DEF CreateWrite
  <2>4. ASSUME NEW u \in Ids, UpdateUser(u) PROVE TypeOK'
    BY <2>4, UpdateSets, AdministeredTypes DEF UpdateUser
  <2>5. ASSUME NEW u \in Ids, NEW role \in RoleNames, AssignRole(u, role) PROVE TypeOK'
    <3>1. users[u] \in Users /\ Lower(role) \in RoleNames
      BY <2>5, ExistsTypes, RoleAssumption DEF AssignRole
    <3>2. [users[u] EXCEPT !.roles = @ \cup {Lower(role)}] \in Users
      BY <3>1 DEF Users
    <3> QED
      BY <2>5, <3>2, AdministeredTypes DEF AssignRole
  <2>6. ASSUME NEW u \in Ids, NEW role \in RoleNames, RemoveRole(u, role) PROVE TypeOK'
    <3>1. users[u] \in Users
      BY <2>6, ExistsTypes DEF RemoveRole
    <3>2. [users[u] EXCEPT !.roles = @ \ {role}] \in Users
      BY <3>1 DEF Users
    <3> QED
      BY <2>6, <3>2, AdministeredTypes DEF RemoveRole
  <2>7. ASSUME NEW name \in Names, NEW p \in Passwords, SeedAdmin(name, p) PROVE TypeOK'
    BY <2>7, SeedSets, AdministeredTypes DEF SeedAdmin
  <2>8. ASSUME NEW c \in Calls, Login(c) PROVE TypeOK'
    <3>1. PICK u \in Ids : Exists(u) /\ calls' = [calls EXCEPT ![c] = Issuing("login", u)]
      BY <2>8 DEF Login, FoundByName
    <3> QED
      BY <2>8, <3>1, IssuingTypes DEF Login, TypeOK
  <2>9. ASSUME NEW c \in Calls, Refresh(c) PROVE TypeOK'
    <3>1. PICK t \in tokens : Exists(t.user) /\ calls' = [calls EXCEPT ![c] = Issuing("refresh", t.user)]
      BY <2>9 DEF Refresh
    <3>2. t.user \in Ids
      BY DEF TypeOK, Tokens
    <3> QED
      BY <2>9, <3>1, <3>2, IssuingTypes DEF Refresh, TypeOK
  <2>10. ASSUME NEW c \in Calls, Issue(c) PROVE TypeOK'
    <3>1. calls[c] \in CallStates /\ calls[c].pc \in {"login", "refresh"}
      BY <2>10 DEF Issue, TypeOK
    <3>2. /\ calls[c].user \in Ids /\ calls[c].roles \in SUBSET RoleNames
          /\ calls[c].department \in Departments /\ calls[c].read \in Nat
      BY <3>1 DEF CallStates
    <3>3. NewToken(calls[c], "access", calls[c].roles, calls[c].department, AccessLife) \in Tokens
      BY <3>2, LifeAssumption DEF NewToken, Tokens, TypeOK
    <3>4. NewToken(calls[c], "refresh", {}, NoDepartment, RefreshLife) \in Tokens
      BY <3>2, LifeAssumption, DataAssumption DEF NewToken, Tokens, TypeOK
    <3>5. calls' \in [Calls -> CallStates]
      BY <2>10 DEF Issue, TypeOK, CallStates, IdleCall
    <3> QED
      BY <2>10, <3>3, <3>4, <3>5 DEF Issue, TypeOK
  <2>11. ASSUME NEW r \in Requests, NEW q \in Questions, Authenticate(r, q) PROVE TypeOK'
    <3>1. PICK t \in tokens :
            requests' = [requests EXCEPT ![r] = Asked(q, t.roles, t.department, t.user, t.read, t.issued)]
      BY <2>11 DEF Authenticate
    <3>2. t \in Tokens
      BY DEF TypeOK
    <3>3. /\ t.roles \in SUBSET RoleNames /\ t.department \in Departments
          /\ t.user \in Ids \cup {Nobody} /\ t.read \in Nat /\ t.issued \in Nat
      BY <3>2 DEF Tokens
    <3> QED
      BY <2>11, <3>1, <3>3, AskedTypes DEF Authenticate
  <2>12. ASSUME NEW r \in Requests, NEW q \in Questions, Demonstrate(r, q) PROVE TypeOK'
    <3>1. PICK role \in DefaultRoles :
            requests' = [requests EXCEPT ![r] =
                Asked(q, {role}, IF role = "manager" THEN ManagerDepartment ELSE NoDepartment,
                      Nobody, clock, clock)]
      BY <2>12 DEF Demonstrate
    <3>2. ManagerDepartment \in Departments
      BY DataAssumption DEF ManagerDepartment
    <3>3. /\ {role} \in SUBSET RoleNames
          /\ (IF role = "manager" THEN ManagerDepartment ELSE NoDepartment) \in Departments
      BY <3>2, RoleAssumption, DataAssumption
    <3>4. clock \in Nat
      BY DEF TypeOK
    <3> QED
      BY <2>12, <3>1, <3>3, <3>4, AskedTypes DEF Demonstrate
  <2>13. ASSUME NEW r \in Requests, Write(r) PROVE TypeOK'
    <3>1. requests[r].question \in Questions
      BY <2>13 DEF Write, TypeOK, RequestStates
    <3>2. cache[requests[r].question] \in Statements \cup {NoStatement}
      BY <3>1 DEF TypeOK
    <3>3. requests[r] \in RequestStates /\ requests[r].stage = "asked"
      BY <2>13 DEF Write, TypeOK
    <3>4. \A s \in Statements \cup {NoStatement}, hit \in {TRUE, FALSE} :
            Written(requests[r], s, hit) \in RequestStates
      BY <3>3 DEF Written, RequestStates
    <3>5. PICK s \in Statements \cup {NoStatement}, hit \in {TRUE, FALSE} :
            requests' = [requests EXCEPT ![r] = Written(requests[r], s, hit)]
      BY <2>13, <3>2 DEF Write
    <3>6. requests' \in [Requests -> RequestStates]
      BY <3>4, <3>5 DEF TypeOK
    <3> QED
      BY <2>13, <3>6 DEF Write, TypeOK
  <2>14. ASSUME NEW r \in Requests, Execute(r) PROVE TypeOK'
    <3>1. requests' \in [Requests -> RequestStates]
      <4>1. requests[r] \in RequestStates /\ requests[r].stage = "written"
        BY <2>14 DEF Execute, TypeOK
      <4>2. [requests[r] EXCEPT !.stage = "told"] \in RequestStates
        BY <4>1 DEF RequestStates
      <4> QED
        BY <2>14, <4>2 DEF Execute, TypeOK
    <3>2. cache' \in [Questions -> Statements \cup {NoStatement}]
      <4>1. requests[r].statement \in Statements \cup {NoStatement}
        BY <2>14 DEF Execute, TypeOK, RequestStates
      <4> QED
        BY <2>14, <4>1 DEF Execute, TypeOK
    <3>3. DOMAIN told' = Requests
      BY <2>14 DEF Execute, TypeOK
    <3>4. UNCHANGED <<demo, clock, users, tokens, calls, lost, edits>>
      BY <2>14 DEF Execute
    <3> QED
      BY <3>1, <3>2, <3>3, <3>4 DEF TypeOK
  <2>15. ASSUME NEW r \in Requests, Fail(r) PROVE TypeOK'
    BY <2>15 DEF Fail, TypeOK, RequestStates
  <2>16. CASE UNCHANGED vars
    BY <2>16 DEF vars, TypeOK
  <2> QED
    BY <2>1, <2>2, <2>3, <2>4, <2>5, <2>6, <2>7, <2>8, <2>9, <2>10, <2>11, <2>12, <2>13,
       <2>14, <2>15, <2>16 DEF Next, Administer
<1> QED
  BY <1>1, <1>2, PTL DEF Spec

(***************************************************************************)
(* Tokens and requests act on what was held.  The strengthening adds the   *)
(* calls under way, that nothing was read in the future, and that access   *)
(* tokens live as long as they should.                                     *)
(***************************************************************************)
TokenHeld(t) ==
    /\ t.read <= clock
    /\ Exists(t.user)
    /\ HeldAt(t.user, t.roles \cup {"active"}, t.read)
    /\ t.type = "access" => t.exp = t.issued + AccessLife

CallHeld(c) ==
    calls[c].pc \in {"login", "refresh"} =>
        /\ calls[c].read <= clock
        /\ Exists(calls[c].user)
        /\ HeldAt(calls[c].user, calls[c].roles \cup {"active"}, calls[c].read)

RequestHeld(r) ==
    requests[r].stage # "new" /\ requests[r].user # Nobody =>
        /\ requests[r].read <= clock
        /\ HeldAt(requests[r].user, requests[r].roles \cup {"active"}, requests[r].read)
        /\ requests[r].at < requests[r].issued + AccessLife

Held ==
    /\ \A t \in tokens : TokenHeld(t)
    /\ \A c \in Calls : CallHeld(c)
    /\ \A r \in Requests : RequestHeld(r)

LEMMA SetUserHeld ==
    ASSUME TypeOK, NEW u \in Ids, NEW user \in Users, SetUser(u, user), UNCHANGED clock,
           NEW v \in Ids
    PROVE  /\ Exists(v) => Exists(v)'
           /\ \A S \in SUBSET Things, read \in Nat :
                read <= clock /\ HeldAt(v, S, read) => HeldAt(v, S, read)'
<1>1. users' = [users EXCEPT ![u] = user] /\ users \in [Ids -> Users \cup {Absent}]
  BY DEF SetUser, TypeOK
<1>2. Exists(v) => Exists(v)'
  <2>1. user.name # Nobody
    BY NobodyAssumption DEF Users
  <2> QED
    BY <1>1, <2>1 DEF Exists
<1>3. ASSUME NEW S \in SUBSET Things, NEW read \in Nat, read <= clock, HeldAt(v, S, read),
             NEW x \in S
      PROVE  x \in Holds(users'[v]) \/ lost'[v][x] >= read
  <2>1. CASE v # u
    <3>1. users'[v] = users[v] /\ lost'[v] = lost[v]
      BY <1>1, <2>1 DEF SetUser, TypeOK
    <3> QED
      BY <1>3, <3>1 DEF HeldAt
  <2>2. CASE v = u
    <3>1. users'[v] = user
      BY <1>1, <2>2
    <3>2. x \in RoleNames \cup {"active"}
      BY DEF Things
    <3>3. lost'[v][x] = IF x \in Holds(users[u]) \ Holds(user) THEN clock ELSE lost[u][x]
      BY <2>2, <3>2 DEF SetUser, TypeOK
    <3>4. clock \in Nat /\ lost[u][x] \in Nat
      BY <3>2 DEF TypeOK
    <3>5. x \in Holds(users[u]) \/ lost[u][x] >= read
      BY <1>3, <2>2 DEF HeldAt
    <3>6. CASE x \in Holds(user)
      BY <3>1, <3>6
    <3>7. CASE x \notin Holds(user) /\ x \in Holds(users[u])
      BY <1>3, <3>3, <3>4, <3>7
    <3>8. CASE x \notin Holds(users[u])
      BY <3>3, <3>4, <3>5, <3>8
    <3> QED
      BY <3>6, <3>7, <3>8
  <2> QED
    BY <2>1, <2>2
<1> QED
  BY <1>2, <1>3 DEF HeldAt

LEMMA TokenTypes ==
    ASSUME TypeOK, NEW t \in tokens
    PROVE  /\ t.user \in Ids /\ t.roles \cup {"active"} \in SUBSET Things
           /\ t.read \in Nat /\ t.issued \in Nat /\ t.exp \in Nat
BY DEF TypeOK, Tokens, Things

LEMMA CallTypes ==
    ASSUME TypeOK, NEW c \in Calls, calls[c].pc \in {"login", "refresh"}
    PROVE  /\ calls[c].user \in Ids /\ calls[c].roles \cup {"active"} \in SUBSET Things
           /\ calls[c].read \in Nat /\ calls[c].roles \in SUBSET RoleNames
<1>1. calls[c] \in CallStates
  BY DEF TypeOK
<1> QED
  BY <1>1 DEF CallStates, Things

LEMMA RequestTypes ==
    ASSUME TypeOK, NEW r \in Requests, requests[r].stage # "new"
    PROVE  /\ requests[r].user \in Ids \cup {Nobody}
           /\ requests[r].roles \cup {"active"} \in SUBSET Things
           /\ requests[r].roles \in SUBSET RoleNames
           /\ requests[r].read \in Nat /\ requests[r].issued \in Nat /\ requests[r].at \in Nat
           /\ requests[r].department \in Departments
           /\ requests[r].statement \in Statements \cup {NoStatement}
<1>1. requests[r] \in RequestStates
  BY DEF TypeOK
<1> QED
  BY <1>1 DEF RequestStates, Things

LEMMA HeldBySetUser ==
    ASSUME TypeOK, Held, NEW u \in Ids, NEW user \in Users, SetUser(u, user),
           UNCHANGED <<clock, tokens, requests>>,
           \A c \in Calls : calls'[c] = calls[c] \/ calls'[c].pc = "idle"
    PROVE  Held'
<1>1. ASSUME NEW t \in tokens' PROVE TokenHeld(t)'
  <2>1. t \in tokens /\ TokenHeld(t)
    BY <1>1 DEF Held
  <2> QED
    BY <2>1, TokenTypes, SetUserHeld DEF TokenHeld
<1>2. ASSUME NEW c \in Calls PROVE CallHeld(c)'
  <2>1. CASE calls'[c] = calls[c] /\ calls[c].pc \in {"login", "refresh"}
    <3>1. CallHeld(c)
      BY DEF Held
    <3>2. HeldAt(calls[c].user, calls[c].roles \cup {"active"}, calls[c].read)'
             = (\A x \in calls[c].roles \cup {"active"} :
                 x \in Holds(users'[calls[c].user]) \/ lost'[calls[c].user][x] >= calls[c].read)
      BY <2>1 DEF HeldAt
    <3>3. \A x \in calls[c].roles \cup {"active"} :
                 x \in Holds(users'[calls[c].user]) \/ lost'[calls[c].user][x] >= calls[c].read
      <4>1. \A S \in SUBSET Things, read \in Nat :
              read <= clock /\ HeldAt(calls[c].user, S, read)
                => (\A x \in S : x \in Holds(users'[calls[c].user]) \/ lost'[calls[c].user][x] >= read)
        <5>1. calls[c].user \in Ids
          BY <2>1, CallTypes
        <5>2. \A v \in Ids, S \in SUBSET Things, read \in Nat :
                read <= clock /\ HeldAt(v, S, read)
                  => (\A x \in S : x \in Holds(users'[v]) \/ lost'[v][x] >= read)
          BY SetUserHeld DEF HeldAt
        <5> QED
          BY <5>1, <5>2
      <4> QED
        BY <2>1, <3>1, <4>1, CallTypes DEF CallHeld
    <3>4. Exists(calls[c].user)'
      <4>1. calls[c].user \in Ids /\ Exists(calls[c].user)
        BY <2>1, <3>1, CallTypes DEF CallHeld
      <4>2. \A v \in Ids : Exists(v) => users'[v].name # Nobody
        BY SetUserHeld DEF Exists
      <4> QED
        BY <2>1, <4>1, <4>2 DEF Exists
    <3> QED
      BY <2>1, <3>1, <3>2, <3>3, <3>4 DEF CallHeld
  <2>2. CASE calls'[c].pc \notin {"login", "refresh"}
    BY <2>2 DEF CallHeld
  <2> QED
    BY <2>1, <2>2
<1>3. ASSUME NEW r \in Requests PROVE RequestHeld(r)'
  <2> SUFFICES ASSUME requests[r].stage # "new", requests[r].user # Nobody
               PROVE  /\ requests[r].read <= clock
                      /\ \A x \in requests[r].roles \cup {"active"} :
                            \/ x \in Holds(users'[requests[r].user])
                            \/ lost'[requests[r].user][x] >= requests[r].read
                      /\ requests[r].at < requests[r].issued + AccessLife
    BY DEF RequestHeld, HeldAt
  <2>1. RequestHeld(r)
    BY DEF Held
  <2>2. \A v \in Ids, S \in SUBSET Things, read \in Nat :
          read <= clock /\ HeldAt(v, S, read)
            => (\A x \in S : x \in Holds(users'[v]) \/ lost'[v][x] >= read)
    BY SetUserHeld DEF HeldAt
  <2> QED
    BY <2>1, <2>2, RequestTypes DEF RequestHeld
<1> QED
  BY <1>1, <1>2, <1>3 DEF Held

LEMMA IssuingHeld ==
    ASSUME TypeOK, Held, NEW c \in Calls, NEW u \in Ids, Exists(u), users[u].active = TRUE,
           NEW pc \in {"login", "refresh"},
           calls' = [calls EXCEPT ![c] = Issuing(pc, u)],
           UNCHANGED <<clock, users, lost, tokens, requests>>
    PROVE  Held'
<1>1. \A d \in Calls : CallHeld(d)'
  <2> SUFFICES ASSUME NEW d \in Calls PROVE CallHeld(d)'
    OBVIOUS
  <2>1. CASE d = c
    <3>1. calls'[d] = Issuing(pc, u)
      BY <2>1 DEF TypeOK
    <3>2. clock \in Nat
      BY DEF TypeOK
    <3>3. \A x \in users[u].roles \cup {"active"} : x \in Holds(users[u])
      BY DEF Holds
    <3> QED
      BY <3>1, <3>2, <3>3 DEF CallHeld, Issuing, HeldAt, Exists
  <2>2. CASE d # c
    <3>1. calls'[d] = calls[d] /\ CallHeld(d)
      BY <2>2 DEF TypeOK, Held
    <3> QED
      BY <3>1 DEF CallHeld, HeldAt, Exists
  <2> QED
    BY <2>1, <2>2
<1>2. \A t \in tokens' : TokenHeld(t)'
  BY DEF Held, TokenHeld, HeldAt, Exists
<1>3. \A r \in Requests : RequestHeld(r)'
  BY DEF Held, RequestHeld, HeldAt
<1> QED
  BY <1>1, <1>2, <1>3 DEF Held

LEMMA HeldElsewhere ==
    ASSUME TypeOK, Held, UNCHANGED <<users, lost, tokens, calls>>,
           clock' \in Nat, clock <= clock', \A r \in Requests : RequestHeld(r)'
    PROVE  Held'
<1>1. clock \in Nat
  BY DEF TypeOK
<1>2. ASSUME NEW t \in tokens PROVE TokenHeld(t)'
  <2>1. TokenHeld(t) /\ t.read \in Nat
    BY TokenTypes DEF Held
  <2> QED
    BY <1>1, <2>1 DEF TokenHeld, HeldAt, Exists
<1>3. ASSUME NEW c \in Calls, calls[c].pc \in {"login", "refresh"} PROVE CallHeld(c)'
  <2>1. CallHeld(c) /\ calls[c].read \in Nat
    BY <1>3, CallTypes DEF Held
  <2> QED
    BY <1>1, <2>1 DEF CallHeld, HeldAt, Exists
<1>4. \A c \in Calls : CallHeld(c)'
  BY <1>3 DEF CallHeld
<1> QED
  BY <1>2, <1>4 DEF Held

\* A change of one request that leaves the rest alone
LEMMA HeldByRequest ==
    ASSUME TypeOK, Held, UNCHANGED <<clock, users, lost, tokens, calls>>, NEW r \in Requests,
           NEW request, requests' = [requests EXCEPT ![r] = request], RequestHeld(r)'
    PROVE  Held'
<1>1. \A s \in Requests : RequestHeld(s)'
  <2> SUFFICES ASSUME NEW s \in Requests, s # r PROVE RequestHeld(s)'
    OBVIOUS
  <2>1. requests'[s] = requests[s] /\ RequestHeld(s)
    BY DEF TypeOK, Held
  <2> QED
    BY <2>1 DEF RequestHeld, HeldAt
<1>2. clock \in Nat /\ clock' \in Nat /\ clock <= clock'
  BY DEF TypeOK
<1> QED
  BY <1>1, <1>2, HeldElsewhere

LEMMA AdministeredHeld ==
    ASSUME TypeOK, Held, Administered, NEW u \in Ids, NEW user \in Users, SetUser(u, user)
    PROVE  Held'
BY HeldBySetUser DEF Administered, Edited

LEMMA HeldStep == TypeOK /\ Held /\ [Next]_vars => Held'
<1> SUFFICES ASSUME TypeOK, Held, [Next]_vars PROVE Held'
  OBVIOUS
<1>1. CASE Tick
  <2>1. clock \in Nat /\ clock' = clock + 1
    BY <1>1 DEF Tick, TypeOK
  <2>2. ASSUME NEW r \in Requests, requests[r].stage # "new" PROVE RequestHeld(r)'
    <3>1. RequestHeld(r) /\ requests[r].read \in Nat
      BY <2>2, RequestTypes DEF Held
    <3>2. UNCHANGED <<requests, users, lost>>
      BY <1>1 DEF Tick
    <3> QED
      BY <2>1, <3>1, <3>2 DEF RequestHeld, HeldAt
  <2>3. \A r \in Requests : RequestHeld(r)'
    BY <1>1, <2>2 DEF RequestHeld, Tick
  <2> QED
    BY <1>1, <2>1, <2>3, HeldElsewhere DEF Tick
<1>2. ASSUME NEW c \in Calls, CreateCheck(c) PROVE Held'
  <2>1. /\ UNCHANGED <<clock, users, lost, tokens, requests>>
        /\ \A d \in Calls : calls'[d] = calls[d] \/ calls'[d].pc = "create"
    BY <1>2 DEF CreateCheck, Edited, TypeOK
  <2>2. \A d \in Calls : CallHeld(d)'
    BY <2>1 DEF Held, CallHeld, HeldAt, Exists
  <2>3. \A t \in tokens' : TokenHeld(t)'
    BY <2>1 DEF Held, TokenHeld, HeldAt, Exists
  <2>4. \A r \in Requests : RequestHeld(r)'
    BY <2>1 DEF Held, RequestHeld, HeldAt
  <2> QED
    BY <2>2, <2>3, <2>4 DEF Held
<1>3. ASSUME NEW c \in Calls, CreateWrite(c) PROVE Held'
  <2>1. /\ UNCHANGED <<clock, tokens, requests>>
        /\ \A d \in Calls : calls'[d] = calls[d] \/ calls'[d].pc = "idle"
    BY <1>3 DEF CreateWrite, TypeOK, IdleCall
  <2>2. CASE UNCHANGED <<users, lost>>
    <3>1. \A d \in Calls : CallHeld(d)'
      BY <2>1, <2>2 DEF Held, CallHeld, HeldAt, Exists
    <3>2. \A t \in tokens' : TokenHeld(t)'
      BY <2>1, <2>2 DEF Held, TokenHeld, HeldAt, Exists
    <3>3. \A r \in Requests : RequestHeld(r)'
      BY <2>1, <2>2 DEF Held, RequestHeld, HeldAt
    <3> QED
      BY <3>1, <3>2, <3>3 DEF Held
  <2>3. ASSUME NEW u \in Ids,
               SetUser(u, [name |-> calls[c].name, password |-> calls[c].password,
                           roles |-> calls[c].roles, department |-> calls[c].department,
                           active |-> TRUE])
        PROVE  Held'
    <3>1. calls[c] \in CallStates /\ calls[c].pc = "create"
      BY <1>3 DEF CreateWrite, TypeOK
    <3>2. [name |-> calls[c].name, password |-> calls[c].password, roles |-> calls[c].roles,
           department |-> calls[c].department, active |-> TRUE] \in Users
      BY <3>1 DEF CallStates, Users
    <3> QED
      BY <2>1, <2>3, <3>2, HeldBySetUser
  <2> QED
    BY <1>3, <2>2, <2>3 DEF CreateWrite
<1>4. ASSUME NEW u \in Ids, UpdateUser(u) PROVE Held'
  BY <1>4, UpdateSets, AdministeredHeld DEF UpdateUser
<1>5. ASSUME NEW u \in Ids, NEW role \in RoleNames, AssignRole(u, role) PROVE Held'
  <2>1. users[u] \in Users /\ Lower(role) \in RoleNames
    BY <1>5, ExistsTypes, RoleAssumption DEF AssignRole
  <2>2. [users[u] EXCEPT !.roles = @ \cup {Lower(role)}] \in Users
    BY <2>1 DEF Users
  <2> QED
    BY <1>5, <2>2, AdministeredHeld DEF AssignRole
<1>6. ASSUME NEW u \in Ids, NEW role \in RoleNames, RemoveRole(u, role) PROVE Held'
  <2>1. users[u] \in Users
    BY <1>6, ExistsTypes DEF RemoveRole
  <2>2. [users[u] EXCEPT !.roles = @ \ {role}] \in Users
    BY <2>1 DEF Users
  <2> QED
    BY <1>6, <2>2, AdministeredHeld DEF RemoveRole
<1>7. ASSUME NEW name \in Names, NEW p \in Passwords, SeedAdmin(name, p) PROVE Held'
  BY <1>7, SeedSets, AdministeredHeld DEF SeedAdmin
<1>8. ASSUME NEW c \in Calls, Login(c) PROVE Held'
  <2>1. PICK u \in Ids : /\ Exists(u) /\ users[u].active = TRUE
                         /\ calls' = [calls EXCEPT ![c] = Issuing("login", u)]
    BY <1>8 DEF Login, FoundByName
  <2> QED
    BY <1>8, <2>1, IssuingHeld DEF Login
<1>9. ASSUME NEW c \in Calls, Refresh(c) PROVE Held'
  <2>1. PICK t \in tokens : /\ Exists(t.user) /\ users[t.user].active = TRUE
                            /\ calls' = [calls EXCEPT ![c] = Issuing("refresh", t.user)]
    BY <1>9 DEF Refresh
  <2> QED
    BY <1>9, <2>1, IssuingHeld, TokenTypes DEF Refresh
<1>10. ASSUME NEW c \in Calls, Issue(c) PROVE Held'
  <2>1. UNCHANGED <<clock, users, lost, requests>>
    BY <1>10 DEF Issue
  <2>2. CallHeld(c) /\ calls[c].pc \in {"login", "refresh"}
    BY <1>10 DEF Issue, Held
  <2>3. \A t \in tokens' :
          \/ t \in tokens
          \/ t = NewToken(calls[c], "access", calls[c].roles, calls[c].department, AccessLife)
          \/ t = NewToken(calls[c], "refresh", {}, NoDepartment, RefreshLife)
    BY <1>10 DEF Issue
  <2>4. ASSUME NEW t \in tokens PROVE TokenHeld(t)'
    BY <2>1 DEF Held, TokenHeld, HeldAt, Exists
  <2>5. ASSUME NEW t, t = NewToken(calls[c], "access", calls[c].roles, calls[c].department, AccessLife)
        PROVE  TokenHeld(t)'
    BY <2>1, <2>2, <2>5 DEF TokenHeld, CallHeld, NewToken, HeldAt, Exists
  <2>6. ASSUME NEW t, t = NewToken(calls[c], "refresh", {}, NoDepartment, RefreshLife)
        PROVE  TokenHeld(t)'
    BY <2>1, <2>2, <2>6 DEF TokenHeld, CallHeld, NewToken, HeldAt, Exists
  <2>7. \A t \in tokens' : TokenHeld(t)'
    BY <2>3, <2>4, <2>5, <2>6
  <2>8. \A d \in Calls : calls'[d] = calls[d] \/ calls'[d].pc = "idle"
    BY <1>10 DEF Issue, TypeOK, IdleCall
  <2>9. \A d \in Calls : CallHeld(d)'
    BY <2>1, <2>8 DEF Held, CallHeld, HeldAt, Exists
  <2>10. \A r \in Requests : RequestHeld(r)'
    BY <2>1 DEF Held, RequestHeld, HeldAt
  <2> QED
    BY <2>7, <2>9, <2>10 DEF Held
<1>11. ASSUME NEW r \in Requests, NEW q \in Questions, Authenticate(r, q) PROVE Held'
  <2>1. PICK t \in tokens :
          /\ Valid(t, "access")
          /\ requests' = [requests EXCEPT ![r] = Asked(q, t.roles, t.department, t.user, t.read, t.issued)]
    BY <1>11 DEF Authenticate
  <2>2. requests'[r] = Asked(q, t.roles, t.department, t.user, t.read, t.issued)
    BY <2>1 DEF TypeOK
  <2>3. TokenHeld(t) /\ clock < t.issued + AccessLife
    BY <2>1 DEF Held, TokenHeld, Valid
  <2>4. UNCHANGED <<clock, users, lost, tokens, calls>>
    BY <1>11 DEF Authenticate
  <2>5. RequestHeld(r)'
    BY <2>2, <2>3, <2>4 DEF RequestHeld, TokenHeld, Asked, HeldAt
  <2> QED
    BY <2>1, <2>4, <2>5, HeldByRequest
<1>12. ASSUME NEW r \in Requests, NEW q \in Questions, Demonstrate(r, q) PROVE Held'
  <2>1. PICK role \in DefaultRoles :
          requests' = [requests EXCEPT ![r] =
              Asked(q, {role}, IF role = "manager" THEN ManagerDepartment ELSE NoDepartment,
                    Nobody, clock, clock)]
    BY <1>12 DEF Demonstrate
  <2>2. requests'[r].user = Nobody
    BY <2>1 DEF TypeOK, Asked
  <2>3. RequestHeld(r)'
    BY <2>2 DEF RequestHeld
  <2> QED
    BY <1>12, <2>1, <2>3, HeldByRequest DEF Demonstrate
<1>13. ASSUME NEW r \in Requests, Write(r) PROVE Held'
  <2>1. PICK s, hit : requests' = [requests EXCEPT ![r] = Written(requests[r], s, hit)]
    BY <1>13 DEF Write
  <2>2. UNCHANGED <<clock, users, lost, tokens, calls>> /\ requests[r].stage = "asked"
    BY <1>13 DEF Write
  <2>3. requests[r] \in RequestStates /\ requests'[r] = Written(requests[r], s, hit)
    BY <2>1 DEF TypeOK
  <2>4. /\ requests'[r].user = requests[r].user /\ requests'[r].read = requests[r].read
        /\ requests'[r].roles = requests[r].roles /\ requests'[r].at = requests[r].at
        /\ requests'[r].issued = requests[r].issued
    BY <2>2, <2>3 DEF Written, RequestStates
  <2>5. RequestHeld(r)
    BY DEF Held
  <2>6. RequestHeld(r)'
    BY <2>2, <2>4, <2>5 DEF RequestHeld, HeldAt
  <2> QED
    BY <2>1, <2>2, <2>6, HeldByRequest
<1>14. ASSUME NEW r \in Requests, Execute(r) PROVE Held'
  <2>1. /\ requests' = [requests EXCEPT ![r] = [requests[r] EXCEPT !.stage = "told"]]
        /\ UNCHANGED <<clock, users, lost, tokens, calls>> /\ requests[r].stage = "written"
    BY <1>14 DEF Execute
  <2>2. requests[r] \in RequestStates /\ requests'[r] = [requests[r] EXCEPT !.stage = "told"]
    BY <2>1 DEF TypeOK
  <2>3. /\ requests'[r].user = requests[r].user /\ requests'[r].read = requests[r].read
        /\ requests'[r].roles = requests[r].roles /\ requests'[r].at = requests[r].at
        /\ requests'[r].issued = requests[r].issued
    BY <2>1, <2>2 DEF RequestStates
  <2>4. RequestHeld(r)
    BY DEF Held
  <2>5. RequestHeld(r)'
    BY <2>1, <2>3, <2>4 DEF RequestHeld, HeldAt
  <2> QED
    BY <2>1, <2>5, HeldByRequest
<1>15. ASSUME NEW r \in Requests, Fail(r) PROVE Held'
  <2>1. /\ requests' = [requests EXCEPT ![r] = [stage |-> "new"]]
        /\ UNCHANGED <<clock, users, lost, tokens, calls>>
    BY <1>15 DEF Fail
  <2>2. requests'[r].stage = "new"
    BY <2>1 DEF TypeOK
  <2>3. RequestHeld(r)'
    BY <2>2 DEF RequestHeld
  <2> QED
    BY <2>1, <2>3, HeldByRequest
<1>16. CASE UNCHANGED vars
  BY <1>16 DEF vars, Held, TokenHeld, CallHeld, RequestHeld, HeldAt, Exists
<1> QED
  BY <1>1, <1>2, <1>3, <1>4, <1>5, <1>6, <1>7, <1>8, <1>9, <1>10, <1>11, <1>12, <1>13,
     <1>14, <1>15, <1>16 DEF Next, Administer

LEMMA HeldInvariant == Spec => []Held
<1>1. Init => Held
  BY DEF Init, Held, CallHeld, RequestHeld, IdleCall
<1> QED
  BY <1>1, HeldStep, TypeCorrect, PTL DEF Spec

\* Every token tells what its user held when it was read (TokensTellWhatWasHeld).
THEOREM TokensHeld == Spec => []TokensTellWhatWasHeld
<1>1. Held => TokensTellWhatWasHeld
  BY DEF Held, TokenHeld, TokensTellWhatWasHeld
<1> QED
  BY <1>1, HeldInvariant, PTL

\* A request acts on what its user held, within the lifetime of its token (RequestsOnRecentRoles).
THEOREM RequestsHeld == Spec => []RequestsOnRecentRoles
<1>1. Held => RequestsOnRecentRoles
  BY DEF Held, RequestHeld, RequestsOnRecentRoles
<1> QED
  BY <1>1, HeldInvariant, PTL

(***************************************************************************)
(* What a request is told.                                                 *)
(***************************************************************************)
ToldOwn ==
    \A r \in Requests :
        /\ requests[r].stage \in {"written", "told"} => requests[r].statement \in Statements
        /\ requests[r].stage = "told" => told[r] = Answer(requests[r])

LEMMA ToldElsewhere ==
    ASSUME TypeOK, ToldOwn, UNCHANGED told, NEW r \in Requests, NEW request,
           requests' = [requests EXCEPT ![r] = request],
           request.stage \in {"new", "asked", "written"},
           request.stage = "written" => request.statement \in Statements
    PROVE  ToldOwn'
<1> SUFFICES ASSUME NEW s \in Requests
             PROVE  /\ requests'[s].stage \in {"written", "told"} => requests'[s].statement \in Statements
                    /\ requests'[s].stage = "told" => told'[s] = Answer(requests'[s])
  BY DEF ToldOwn, Answer
<1>1. CASE s = r
  BY <1>1 DEF TypeOK
<1>2. CASE s # r
  BY <1>2 DEF TypeOK, ToldOwn
<1> QED
  BY <1>1, <1>2

LEMMA ToldStep == TypeOK /\ ToldOwn /\ [Next]_vars => ToldOwn'
<1> SUFFICES ASSUME TypeOK, ToldOwn, [Next]_vars PROVE ToldOwn'
  OBVIOUS
<1>1. CASE UNCHANGED <<requests, told>>
  BY <1>1 DEF ToldOwn, Answer
<1>2. ASSUME NEW r \in Requests, NEW q \in Questions, Authenticate(r, q) PROVE ToldOwn'
  <2>1. PICK t \in tokens :
          requests' = [requests EXCEPT ![r] = Asked(q, t.roles, t.department, t.user, t.read, t.issued)]
    BY <1>2 DEF Authenticate
  <2>2. Asked(q, t.roles, t.department, t.user, t.read, t.issued).stage = "asked" /\ UNCHANGED told
    BY <1>2 DEF Asked, Authenticate
  <2> QED
    BY <2>1, <2>2, ToldElsewhere
<1>3. ASSUME NEW r \in Requests, NEW q \in Questions, Demonstrate(r, q) PROVE ToldOwn'
  <2>1. PICK role \in DefaultRoles :
          requests' = [requests EXCEPT ![r] =
              Asked(q, {role}, IF role = "manager" THEN ManagerDepartment ELSE NoDepartment,
                    Nobody, clock, clock)]
    BY <1>3 DEF Demonstrate
  <2>2. /\ UNCHANGED told
        /\ Asked(q, {role}, IF role = "manager" THEN ManagerDepartment ELSE NoDepartment,
                 Nobody, clock, clock).stage = "asked"
    BY <1>3 DEF Asked, Demonstrate
  <2> QED
    BY <2>1, <2>2, ToldElsewhere
<1>4. ASSUME NEW r \in Requests, Write(r) PROVE ToldOwn'
  <2>1. requests[r] \in RequestStates /\ requests[r].stage = "asked" /\ UNCHANGED told
    BY <1>4 DEF Write, TypeOK
  <2>2. requests[r].question \in Questions
    BY <2>1 DEF RequestStates
  <2>3. cache[requests[r].question] \in Statements \cup {NoStatement}
    BY <2>2 DEF TypeOK
  <2>4. PICK s \in Statements, hit \in {TRUE, FALSE} :
          requests' = [requests EXCEPT ![r] = Written(requests[r], s, hit)]
    BY <1>4, <2>3 DEF Write
  <2>5. Written(requests[r], s, hit).stage = "written" /\ Written(requests[r], s, hit).statement = s
    BY <2>1 DEF Written, RequestStates
  <2> QED
    BY <2>1, <2>4, <2>5, ToldElsewhere
<1>5. ASSUME NEW r \in Requests, Execute(r) PROVE ToldOwn'
  <2>1. requests[r] \in RequestStates /\ requests[r].stage = "written"
    BY <1>5 DEF Execute, TypeOK
  <2>2. /\ told' = [told EXCEPT ![r] = Answer(requests[r])]
        /\ requests' = [requests EXCEPT ![r] = [requests[r] EXCEPT !.stage = "told"]]
    BY <1>5 DEF Execute
  <2> SUFFICES ASSUME NEW s \in Requests
               PROVE  /\ requests'[s].stage \in {"written", "told"} => requests'[s].statement \in Statements
                      /\ requests'[s].stage = "told" => told'[s] = Answer(requests'[s])
    BY DEF ToldOwn, Answer
  <2>3. CASE s = r
    <3>1. told'[r] = Answer(requests[r]) /\ requests'[r] = [requests[r] EXCEPT !.stage = "told"]
      BY <2>2 DEF TypeOK
    <3>2. /\ requests'[r].roles = requests[r].roles /\ requests'[r].statement = requests[r].statement
          /\ requests'[r].department = requests[r].department
      BY <2>1, <3>1 DEF RequestStates
    <3>3. requests[r].statement \in Statements
      BY <2>1 DEF ToldOwn
    <3> QED
      BY <2>3, <3>1, <3>2, <3>3 DEF Answer
  <2>4. CASE s # r
    BY <2>2, <2>4 DEF TypeOK, ToldOwn
  <2> QED
    BY <2>3, <2>4
<1>6. ASSUME NEW r \in Requests, Fail(r) PROVE ToldOwn'
  BY <1>6, ToldElsewhere DEF Fail
<1>7. ASSUME NEW c \in Calls, CreateCheck(c) \/ CreateWrite(c) \/ Login(c) \/ Refresh(c) \/ Issue(c)
      PROVE  UNCHANGED <<requests, told>>
  BY <1>7 DEF CreateCheck, CreateWrite, Login, Refresh, Issue, Edited
<1>8. Administer => UNCHANGED <<requests, told>>
  BY DEF Administer, UpdateUser, AssignRole, RemoveRole, Administered, Edited
<1>9. ASSUME NEW name \in Names, NEW p \in Passwords, SeedAdmin(name, p)
      PROVE  UNCHANGED <<requests, told>>
  BY <1>9 DEF SeedAdmin, Administered, Edited
<1>10. Tick \/ UNCHANGED vars => UNCHANGED <<requests, told>>
  BY DEF Tick, vars
<1> QED
  BY <1>1, <1>2, <1>3, <1>4, <1>5, <1>6, <1>7, <1>8, <1>9, <1>10 DEF Next

LEMMA FilteredNode ==
    ASSUME NEW roles, NEW value, IsNode(value)
    PROVE  FilterValue(roles, value)
             = KeepProps(value, AllowedProps(roles, value.labels[1]))
BY DEF FilterValue, IsNode, IsRel

\* A column as ColumnsAreGranted wants it.
ColumnGranted(roles, s, row, i) ==
    /\ IsNode(row[i]) =>
         /\ \A k \in DOMAIN row[i].labels :
               \E role \in Known(roles) : GrantsLabel(role, row[i].labels[k])
         /\ \A p \in DOMAIN row[i].props :
               \E role \in Known(roles) : GrantsProp(role, row[i].labels[1], p)
    /\ IsRel(row[i]) =>
         /\ \E role \in Known(roles) : row[i].type \in RolePolicies[role].rels
         /\ \A p \in DOMAIN row[i].props :
               \E role \in Known(roles) : GrantsRelProp(role, row[i].type, p)
    /\ ~IsNode(row[i]) /\ ~IsRel(row[i]) =>
         \E given \in Rows[s] : i \in DOMAIN given /\ given[i] = row[i]

\* What the filter lets through is granted by a role, column by column.
LEMMA LetThrough ==
    ASSUME NEW roles, NEW d, NEW s \in Statements,
           NEW row \in ApplyAccessPolicy(roles, d, Rows[s]), NEW i \in DOMAIN row
    PROVE  ColumnGranted(roles, s, row, i)
<1>1. PICK from \in Rows[s] : RecordAllowed(roles, d, from) /\ row = FilterRecord(roles, from)
  BY DEF ApplyAccessPolicy
<1>2. i \in DOMAIN from /\ row[i] = FilterValue(roles, from[i])
  BY <1>1 DEF FilterRecord
<1>3. /\ from[i].kind \in {"node", "rel", "scalar", "nested"}
      /\ DOMAIN from[i] = Shape[from[i].kind]
      /\ ValueAllowed(roles, d, from, from[i])
  BY <1>1, <1>2, RowsAssumption DEF RecordAllowed, Shape
<1>4. CASE from[i].kind = "node"
  <2>1. DOMAIN from[i] = {"kind", "labels", "props"}
    BY <1>3, <1>4 DEF Shape
  <2>2. row[i] = KeepProps(from[i], AllowedProps(roles, from[i].labels[1]))
    BY <1>2, <1>4, FilteredNode DEF IsNode
  <2>3. /\ row[i].kind = "node" /\ row[i].labels = from[i].labels
        /\ DOMAIN row[i].props \subseteq AllowedProps(roles, from[i].labels[1])
    BY <1>4, <2>1, <2>2 DEF KeepProps
  <2>4. \A k \in DOMAIN row[i].labels : \E role \in Known(roles) : GrantsLabel(role, row[i].labels[k])
    BY <1>3, <1>4, <2>3 DEF ValueAllowed, IsNode, AllowedLabels, GrantsLabel
  <2>5. \A p \in DOMAIN row[i].props : p \in AllowedProps(roles, row[i].labels[1])
    BY <2>3
  <2>6. \A p \in DOMAIN row[i].props : \E role \in Known(roles) : GrantsProp(role, row[i].labels[1], p)
    BY <2>5 DEF AllowedProps, LabelRules, GrantsProp, GrantsLabel
  <2>7. IsNode(row[i]) /\ ~IsRel(row[i])
    BY <2>3 DEF IsNode, IsRel
  <2> QED
    BY <2>4, <2>6, <2>7 DEF ColumnGranted
<1>5. CASE from[i].kind = "rel"
  <2>1. DOMAIN from[i] = {"kind", "type", "props"}
    BY <1>3, <1>5 DEF Shape
  <2>2. row[i] = KeepProps(from[i], AllowedRelProps(roles, from[i].type))
    BY <1>2, <1>5 DEF FilterValue, IsNode, IsRel
  <2>3. /\ row[i].kind = "rel" /\ row[i].type = from[i].type
        /\ DOMAIN row[i].props \subseteq AllowedRelProps(roles, from[i].type)
    BY <1>5, <2>1, <2>2 DEF KeepProps
  <2>4. PICK role \in Known(roles) : row[i].type \in RolePolicies[role].rels
    BY <1>3, <1>5, <2>3 DEF ValueAllowed, IsRel, AllowedRels
  <2>5. \A p \in DOMAIN row[i].props : p \in AllowedRelProps(roles, row[i].type)
    BY <2>3
  <2>6. ASSUME NEW p \in DOMAIN row[i].props
        PROVE  \E x \in Known(roles) : GrantsRelProp(x, row[i].type, p)
    <3>1. CASE RelRuled(roles, row[i].type) = {}
      BY <2>4, <3>1 DEF RelRuled, GrantsRelProp
    <3>2. CASE RelRuled(roles, row[i].type) # {}
      BY <2>5, <3>2 DEF AllowedRelProps, RelRuled, GrantsRelProp
    <3> QED
      BY <3>1, <3>2
  <2>7. IsRel(row[i]) /\ ~IsNode(row[i])
    BY <2>3 DEF IsNode, IsRel
  <2> QED
    BY <2>4, <2>6, <2>7 DEF ColumnGranted
<1>6. CASE from[i].kind \in {"scalar", "nested"}
  <2>1. row[i] = from[i] /\ ~IsNode(row[i]) /\ ~IsRel(row[i])
    BY <1>2, <1>6 DEF FilterValue, IsNode, IsRel
  <2> QED
    BY <1>1, <1>2, <2>1 DEF ColumnGranted
<1> QED
  BY <1>3, <1>4, <1>5, <1>6

\* Of the nodes and relationships that are columns a request that is not an administrator's is
\* told what one of its roles grants; other columns are told as they are (ColumnsAreGranted).
THEOREM ToldGranted == Spec => []ColumnsAreGranted
<1>1. Init => ToldOwn
  BY DEF Init, ToldOwn
<1>2. TypeOK /\ ToldOwn => ColumnsAreGranted
  <2> SUFFICES ASSUME TypeOK, ToldOwn, NEW r \in Requests, Filtered(r),
                      NEW row \in told[r], NEW i \in DOMAIN row
               PROVE  ColumnGranted(requests[r].roles, requests[r].statement, row, i)
    BY DEF ColumnsAreGranted, ColumnGranted
  <2>1. /\ requests[r].statement \in Statements /\ requests[r].department \in Departments
        /\ requests[r].roles \in SUBSET RoleNames /\ "admin" \notin requests[r].roles
        /\ told[r] = Answer(requests[r])
    BY RequestTypes DEF Filtered, ToldOwn
  <2>2. told[r] = ApplyAccessPolicy(requests[r].roles, requests[r].department, Rows[requests[r].statement])
    BY <2>1 DEF Answer, Answers
  <2> QED
    BY <2>1, <2>2, LetThrough
<1> QED
  BY <1>1, <1>2, ToldStep, TypeCorrect, PTL DEF Spec

(***************************************************************************)
(* What the filter leaves agrees with the schema of the prompt, keeps to    *)
(* the department, and grows with the roles.                                *)
(***************************************************************************)

\* More roles see more: each part of the merged policy grows with them.
LEMMA MoreRoles ==
    ASSUME NEW before, NEW after, before \subseteq after
    PROVE  /\ AllowedLabels(before) \subseteq AllowedLabels(after)
           /\ AllowedRels(before) \subseteq AllowedRels(after)
           /\ \A l : AllowedProps(before, l) \subseteq AllowedProps(after, l)
           /\ \A l : MergedScope(before, l) = "all" => MergedScope(after, l) = "all"
           /\ \A p : HasPermission(before, p) => HasPermission(after, p)
<1>1. Known(before) \subseteq Known(after)
  BY DEF Known
<1>2. \A l : LabelRules(before, l) \subseteq LabelRules(after, l)
  BY <1>1 DEF LabelRules
<1>3. PermissionsForRoles(before) \subseteq PermissionsForRoles(after)
  BY <1>1 DEF PermissionsForRoles
<1>4. AllowedLabels(before) \subseteq AllowedLabels(after)
  BY <1>1 DEF AllowedLabels
<1>5. AllowedRels(before) \subseteq AllowedRels(after)
  BY <1>1 DEF AllowedRels
<1>6. \A l : AllowedProps(before, l) \subseteq AllowedProps(after, l)
  BY <1>2 DEF AllowedProps
<1>7. \A l : MergedScope(before, l) = "all" => MergedScope(after, l) = "all"
  BY <1>2 DEF MergedScope
<1>8. \A p : HasPermission(before, p) => HasPermission(after, p)
  BY <1>3 DEF HasPermission
<1> QED
  BY <1>4, <1>5, <1>6, <1>7, <1>8

\* A value as _is_node and _is_relationship tell it apart.
WellFormed(value) ==
    value.kind \in DOMAIN Shape /\ DOMAIN value = Shape[value.kind]

\* A value of a row keeps its kind and its labels or type, and loses at most
\* properties.
LEMMA FilteredValue ==
    ASSUME NEW roles, NEW from, WellFormed(from), NEW value, value = FilterValue(roles, from)
    PROVE  /\ value.kind = from.kind
           /\ from.kind = "node" =>
                /\ value.labels = from.labels
                /\ DOMAIN value.props = (DOMAIN from.props) \cap AllowedProps(roles, from.labels[1])
                /\ \A p \in DOMAIN value.props : value.props[p] = from.props[p]
           /\ from.kind = "rel" => value.type = from.type
<1>1. CASE from.kind = "node"
  <2>1. DOMAIN from = {"kind", "labels", "props"}
    BY <1>1 DEF Shape, WellFormed
  <2>2. value = KeepProps(from, AllowedProps(roles, from.labels[1]))
    BY <1>1, FilteredNode DEF IsNode
  <2> QED
    BY <1>1, <2>1, <2>2 DEF KeepProps
<1>2. CASE from.kind = "rel"
  <2>1. DOMAIN from = {"kind", "type", "props"}
    BY <1>2 DEF Shape, WellFormed
  <2>2. value = KeepProps(from, AllowedRelProps(roles, from.type))
    BY <1>2 DEF FilterValue, IsNode, IsRel
  <2> QED
    BY <1>2, <2>1, <2>2 DEF KeepProps
<1>3. CASE from.kind \in {"scalar", "nested"}
  BY <1>3 DEF FilterValue, IsNode, IsRel
<1> QED
  BY <1>1, <1>2, <1>3 DEF WellFormed, Shape

\* A request that is not an administrator's is told the filtered rows of its
\* statement.
LEMMA ToldFiltered ==
    ASSUME TypeOK, ToldOwn, NEW r \in Requests, Filtered(r)
    PROVE  /\ requests[r].statement \in Statements
           /\ requests[r].department \in Departments
           /\ requests[r].roles \in SUBSET RoleNames /\ "admin" \notin requests[r].roles
           /\ told[r] = ApplyAccessPolicy(requests[r].roles, requests[r].department,
                                          Rows[requests[r].statement])
<1>1. /\ requests[r].statement \in Statements /\ requests[r].department \in Departments
      /\ requests[r].roles \in SUBSET RoleNames /\ "admin" \notin requests[r].roles
      /\ told[r] = Answer(requests[r])
  BY RequestTypes DEF Filtered, ToldOwn
<1> QED
  BY <1>1 DEF Answer, Answers

\* The policies name labels and relationship types of the schema only.
LEMMA PoliciesInSchema ==
    ASSUME NEW roles
    PROVE  AllowedLabels(roles) \subseteq Labels /\ AllowedRels(roles) \subseteq RelTypes
<1>1. \A role \in DefaultRoles : DOMAIN RolePolicies[role].nodes \subseteq Labels
  BY DEF DefaultRoles, RolePolicies, AdminRules, ManagerRules, EditorRules, ViewerRules
<1>2. \A role \in DefaultRoles : RolePolicies[role].rels \subseteq RelTypes
  BY DEF DefaultRoles, RolePolicies, RelTypes
<1> QED
  BY <1>1, <1>2 DEF AllowedLabels, AllowedRels, Known

\* Only the manager's rules keep to the department, for two labels that every
\* other role sees everywhere, and they show all properties.
LEMMA DepartmentRules ==
    /\ \A role \in DefaultRoles : \A l \in DOMAIN RolePolicies[role].nodes :
         RolePolicies[role].nodes[l].scope = "department" =>
           role = "manager" /\ l \in {"Employee", "Project"}
    /\ \A role \in DefaultRoles : \A l \in {"Employee", "Project"} :
         l \in DOMAIN RolePolicies[role].nodes
    /\ \A l \in DOMAIN RolePolicies["manager"].nodes :
         RolePolicies["manager"].nodes[l].props = Props
<1>1. /\ \A l \in DOMAIN AdminRules : AdminRules[l].scope = "all"
      /\ {"Employee", "Project"} \subseteq DOMAIN AdminRules
  BY DEF AdminRules, Open, Rule, Labels
<1>2. /\ \A l \in DOMAIN ManagerRules :
           /\ ManagerRules[l].props = Props
           /\ ManagerRules[l].scope = "department" => l \in {"Employee", "Project"}
      /\ {"Employee", "Project"} \subseteq DOMAIN ManagerRules
  BY DEF ManagerRules, Open, Rule, Labels
<1>3. /\ \A l \in DOMAIN EditorRules : EditorRules[l].scope = "all"
      /\ {"Employee", "Project"} \subseteq DOMAIN EditorRules
  BY DEF EditorRules, Open, Rule, Labels
<1>4. /\ \A l \in DOMAIN ViewerRules : ViewerRules[l].scope = "all"
      /\ {"Employee", "Project"} \subseteq DOMAIN ViewerRules
  BY DEF ViewerRules, Open, Rule, Labels
<1>5. /\ RolePolicies["admin"].nodes = AdminRules
      /\ RolePolicies["manager"].nodes = ManagerRules
      /\ RolePolicies["editor"].nodes = EditorRules
      /\ RolePolicies["viewer"].nodes = ViewerRules
  BY DEF RolePolicies
<1> QED
  BY <1>1, <1>2, <1>3, <1>4, <1>5 DEF DefaultRoles

\* The prompt's schema covers what is told.
LEMMA InSchema ==
    ASSUME NEW roles, NEW d, NEW s \in Statements,
           NEW row \in ApplyAccessPolicy(roles, d, Rows[s]), NEW i \in DOMAIN row
    PROVE  /\ IsNode(row[i]) => \A k \in DOMAIN row[i].labels :
                row[i].labels[k] \in Labels \cap AllowedLabels(roles)
           /\ IsRel(row[i]) => row[i].type \in RelTypes \cap AllowedRels(roles)
<1>1. PICK from \in Rows[s] : RecordAllowed(roles, d, from) /\ row = FilterRecord(roles, from)
  BY DEF ApplyAccessPolicy
<1>2. i \in DOMAIN from /\ row[i] = FilterValue(roles, from[i])
  BY <1>1 DEF FilterRecord
<1>3. WellFormed(from[i]) /\ ValueAllowed(roles, d, from, from[i])
  BY <1>1, <1>2, RowsAssumption DEF RecordAllowed, WellFormed
<1>4. /\ row[i].kind = from[i].kind
      /\ from[i].kind = "node" => row[i].labels = from[i].labels
      /\ from[i].kind = "rel" => row[i].type = from[i].type
  BY <1>2, <1>3, FilteredValue
<1> QED
  BY <1>3, <1>4, PoliciesInSchema DEF ValueAllowed, IsNode, IsRel

\* A row a manager is told names the same departments as before the filter.
LEMMA DepartmentsKept ==
    ASSUME NEW roles, Known(roles) = {"manager"}, NEW s \in Statements, NEW from \in Rows[s],
           NEW row, DOMAIN row = DOMAIN from,
           \A i \in DOMAIN from : row[i] = FilterValue(roles, from[i]),
           \A i \in DOMAIN from : IsNode(from[i]) =>
              from[i].labels # <<>> /\ from[i].labels[1] \in AllowedLabels(roles)
    PROVE  RowDepartments(row) = RowDepartments(from)
<1>1. \A l \in AllowedLabels(roles) : AllowedProps(roles, l) = Props
  BY DepartmentRules DEF AllowedLabels, AllowedProps, LabelRules
<1>2. ASSUME NEW i \in DOMAIN from
      PROVE  /\ row[i].kind = from[i].kind
             /\ from[i].kind = "node" =>
                  /\ row[i].labels = from[i].labels
                  /\ DOMAIN row[i].props = DOMAIN from[i].props
                  /\ \A p \in DOMAIN from[i].props : row[i].props[p] = from[i].props[p]
  <2>1. WellFormed(from[i]) /\ row[i] = FilterValue(roles, from[i])
    BY RowsAssumption DEF WellFormed
  <2>2. from[i].kind = "node" => DOMAIN from[i].props \subseteq Props
    BY RowsAssumption
  <2>3. from[i].kind = "node" => AllowedProps(roles, from[i].labels[1]) = Props
    BY <1>1 DEF IsNode
  <2>4. /\ row[i].kind = from[i].kind
        /\ from[i].kind = "node" =>
             /\ row[i].labels = from[i].labels
             /\ DOMAIN row[i].props = (DOMAIN from[i].props) \cap AllowedProps(roles, from[i].labels[1])
             /\ \A p \in DOMAIN row[i].props : row[i].props[p] = from[i].props[p]
    BY <2>1, FilteredValue
  <2>5. from[i].kind = "node" => DOMAIN row[i].props = DOMAIN from[i].props
    BY <2>2, <2>3, <2>4
  <2> QED
    BY <2>4, <2>5
<1> QED
  BY <1>2 DEF RowDepartments, IsNode

\* A manager in a department is told no row that names other departments only.
LEMMA InDepartment ==
    ASSUME NEW roles, "admin" \notin roles, NEW d, d # NoDepartment, NEW s \in Statements,
           NEW row \in ApplyAccessPolicy(roles, d, Rows[s]), NEW i \in DOMAIN row, IsNode(row[i]),
           \A role \in Known(roles) : GrantsLabel(role, row[i].labels[1]) =>
              RolePolicies[role].nodes[row[i].labels[1]].scope = "department"
    PROVE  RowDepartments(row) = {} \/ Lower(d) \in RowDepartments(row)
<1> DEFINE label == row[i].labels[1]
<1>0. PICK from \in Rows[s] : RecordAllowed(roles, d, from) /\ row = FilterRecord(roles, from)
  BY DEF ApplyAccessPolicy
<1>1. /\ DOMAIN row = DOMAIN from
      /\ \A j \in DOMAIN from : row[j] = FilterValue(roles, from[j])
  BY <1>0 DEF FilterRecord
<1>2. \A j \in DOMAIN from : IsNode(from[j]) =>
        /\ from[j].labels # <<>>
        /\ \A k \in DOMAIN from[j].labels : from[j].labels[k] \in AllowedLabels(roles)
        /\ ~OutOfDepartment(roles, d, from, from[j].labels[1])
  BY <1>0 DEF RecordAllowed, ValueAllowed
<1>3. IsNode(from[i]) /\ row[i].labels = from[i].labels
  <2>1. WellFormed(from[i]) /\ row[i] = FilterValue(roles, from[i])
    BY <1>0, <1>1, RowsAssumption DEF WellFormed
  <2> QED
    BY <2>1, FilteredValue DEF IsNode
<1>4. \A j \in DOMAIN from : IsNode(from[j]) => from[j].labels[1] \in AllowedLabels(roles)
  <2>1. \A j \in DOMAIN from : IsNode(from[j]) => from[j].labels \in Seq(STRING)
    BY RowsAssumption DEF IsNode
  <2>2. \A labels \in Seq(STRING) : labels # <<>> => 1 \in DOMAIN labels
    OBVIOUS
  <2> QED
    BY <1>2, <2>1, <2>2
<1>5. \E role \in Known(roles) : GrantsLabel(role, label)
  <2>1. label \in AllowedLabels(roles)
    BY <1>1, <1>3, <1>4
  <2> HIDE DEF label
  <2> QED
    BY <2>1 DEF AllowedLabels, GrantsLabel
<1>6. Known(roles) = {"manager"}
  <2>1. "manager" \in Known(roles) /\ label \in {"Employee", "Project"}
    BY <1>5, DepartmentRules DEF Known, GrantsLabel
  <2>2. \A role \in Known(roles) : role = "manager"
    BY <2>1, DepartmentRules DEF Known, GrantsLabel
  <2> QED
    BY <2>1, <2>2
<1>7. RowDepartments(row) = RowDepartments(from)
  BY <1>0, <1>1, <1>2, <1>4, <1>6, DepartmentsKept
<1>8. MergedScope(roles, label) = "department"
  BY DEF MergedScope, LabelRules, GrantsLabel
<1> QED
  BY <1>1, <1>2, <1>3, <1>7, <1>8 DEF OutOfDepartment

\* more shows the nodes of row with at least the same properties.
Covers(more, row) ==
    /\ DOMAIN more = DOMAIN row
    /\ \A i \in DOMAIN row :
         IsNode(row[i]) => /\ IsNode(more[i]) /\ more[i].labels = row[i].labels
                           /\ DOMAIN row[i].props \subseteq DOMAIN more[i].props

\* What one role of several lets through, all of them together let through,
\* with at least the same properties.
LEMMA TogetherMore ==
    ASSUME NEW roles, NEW role \in roles, NEW d, NEW s \in Statements,
           NEW row \in ApplyAccessPolicy({role}, d, Rows[s])
    PROVE  \E more \in ApplyAccessPolicy(roles, d, Rows[s]) : Covers(more, row)
<1>1. PICK from \in Rows[s] : RecordAllowed({role}, d, from) /\ row = FilterRecord({role}, from)
  BY DEF ApplyAccessPolicy
<1>2. /\ AllowedLabels({role}) \subseteq AllowedLabels(roles)
      /\ AllowedRels({role}) \subseteq AllowedRels(roles)
      /\ \A l : AllowedProps({role}, l) \subseteq AllowedProps(roles, l)
      /\ \A l : MergedScope({role}, l) = "all" => MergedScope(roles, l) = "all"
  BY MoreRoles
<1>3. RecordAllowed(roles, d, from)
  <2>1. \A l : OutOfDepartment(roles, d, from, l) => OutOfDepartment({role}, d, from, l)
    BY <1>2 DEF OutOfDepartment, MergedScope
  <2>2. \A i \in DOMAIN from : ValueAllowed({role}, d, from, from[i])
    BY <1>1 DEF RecordAllowed
  <2>3. \A i \in DOMAIN from : ValueAllowed(roles, d, from, from[i])
    BY <1>2, <2>1, <2>2 DEF ValueAllowed
  <2> QED
    BY <2>3 DEF RecordAllowed
<1> DEFINE more == FilterRecord(roles, from)
<1>4. more \in ApplyAccessPolicy(roles, d, Rows[s])
  BY <1>3 DEF ApplyAccessPolicy
<1>5. /\ DOMAIN more = DOMAIN from /\ DOMAIN row = DOMAIN from
      /\ \A i \in DOMAIN from : /\ more[i] = FilterValue(roles, from[i])
                                /\ row[i] = FilterValue({role}, from[i])
  BY <1>1 DEF FilterRecord
<1>6. ASSUME NEW i \in DOMAIN from, IsNode(row[i])
      PROVE  /\ IsNode(more[i]) /\ more[i].labels = row[i].labels
             /\ DOMAIN row[i].props \subseteq DOMAIN more[i].props
  <2> HIDE DEF more
  <2>1. /\ WellFormed(from[i]) /\ more[i] = FilterValue(roles, from[i])
        /\ row[i] = FilterValue({role}, from[i])
    BY <1>5, RowsAssumption DEF WellFormed
  <2>2. /\ row[i].kind = from[i].kind
        /\ from[i].kind = "node" =>
             /\ row[i].labels = from[i].labels
             /\ DOMAIN row[i].props = (DOMAIN from[i].props) \cap AllowedProps({role}, from[i].labels[1])
    BY <2>1, FilteredValue
  <2>3. /\ more[i].kind = from[i].kind
        /\ from[i].kind = "node" =>
             /\ more[i].labels = from[i].labels
             /\ DOMAIN more[i].props = (DOMAIN from[i].props) \cap AllowedProps(roles, from[i].labels[1])
    BY <2>1, FilteredValue
  <2> QED
    BY <1>2, <1>6, <2>2, <2>3 DEF IsNode
<1>7. Covers(more, row)
  BY <1>5, <1>6 DEF Covers
<1> QED
  BY <1>4, <1>7

\* The filter of the rows keeps the columns to the schema of the prompt and to
\* the department, whatever statement a request finds in the shared cache.
THEOREM ToldKeepsToLimits == Spec => []ToldWithinLimits
<1>1. Init => ToldOwn
  BY DEF Init, ToldOwn
<1>2. TypeOK /\ ToldOwn => ColumnsAreInSchema
  <2> SUFFICES ASSUME TypeOK, ToldOwn, NEW r \in Requests, Filtered(r),
                      NEW row \in told[r], NEW i \in DOMAIN row
               PROVE  /\ IsNode(row[i]) => \A k \in DOMAIN row[i].labels :
                           row[i].labels[k] \in Labels \cap AllowedLabels(requests[r].roles)
                      /\ IsRel(row[i]) => row[i].type \in RelTypes \cap AllowedRels(requests[r].roles)
    BY DEF ColumnsAreInSchema, FilteredSchema
  <2>1. /\ requests[r].statement \in Statements
        /\ row \in ApplyAccessPolicy(requests[r].roles, requests[r].department,
                                     Rows[requests[r].statement])
    BY ToldFiltered
  <2> QED
    BY <2>1, InSchema
<1>3. TypeOK /\ ToldOwn => OwnDepartment
  BY ToldFiltered, InDepartment DEF OwnDepartment
<1> QED
  BY <1>1, <1>2, <1>3, ToldStep, TypeCorrect, PTL DEF Spec, ToldWithinLimits

\* A request with several roles is told all that each of them would be told.
THEOREM RolesTogether == Spec => []RolesAddUp
<1>1. Init => ToldOwn
  BY DEF Init, ToldOwn
<1>2. TypeOK /\ ToldOwn => RolesAddUp
  <2> SUFFICES ASSUME TypeOK, ToldOwn, NEW r \in Requests, Filtered(r),
                      NEW role \in requests[r].roles,
                      NEW row \in Answers[requests[r].statement][requests[r].department][{role}]
               PROVE  \E more \in told[r] : Covers(more, row)
    BY DEF RolesAddUp, Covers
  <2>1. /\ requests[r].statement \in Statements /\ requests[r].department \in Departments
        /\ requests[r].roles \in SUBSET RoleNames
        /\ told[r] = ApplyAccessPolicy(requests[r].roles, requests[r].department,
                                       Rows[requests[r].statement])
    BY ToldFiltered
  <2>2. row \in ApplyAccessPolicy({role}, requests[r].department, Rows[requests[r].statement])
    BY <2>1 DEF Answers
  <2> QED
    BY <2>1, <2>2, TogetherMore
<1> QED
  BY <1>1, <1>2, ToldStep, TypeCorrect, PTL DEF Spec

\* Gaining a role takes nothing away, whatever the roles are (RoleGainKeeps).
THEOREM GainKeeps == Spec => RoleGainKeeps
<1>1. ASSUME NEW before, NEW after, before \subseteq after
      PROVE  /\ AllowedLabels(before) \subseteq AllowedLabels(after)
             /\ AllowedRels(before) \subseteq AllowedRels(after)
             /\ \A l \in AllowedLabels(before) :
                   /\ AllowedProps(before, l) \subseteq AllowedProps(after, l)
                   /\ MergedScope(before, l) = "all" => MergedScope(after, l) = "all"
             /\ \A p \in UNION {RolePermissions[x] : x \in DefaultRoles} :
                   HasPermission(before, p) => HasPermission(after, p)
  BY <1>1, MoreRoles
<1>2. [Next]_vars => [\A u \in Ids :
          Exists(u) /\ users[u].roles # users'[u].roles /\ users[u].roles \subseteq users'[u].roles =>
          LET before == users[u].roles
              after == users'[u].roles
          IN  /\ AllowedLabels(before) \subseteq AllowedLabels(after)
              /\ AllowedRels(before) \subseteq AllowedRels(after)
              /\ \A l \in AllowedLabels(before) :
                    /\ AllowedProps(before, l) \subseteq AllowedProps(after, l)
                    /\ MergedScope(before, l) = "all" => MergedScope(after, l) = "all"
              /\ \A p \in UNION {RolePermissions[x] : x \in DefaultRoles} :
                    HasPermission(before, p) => HasPermission(after, p)]_users
  BY <1>1
<1> QED
  BY <1>2, PTL DEF Spec, RoleGainKeeps

\* Roles outlive their removal only in what began before it.
THEOREM RecentRoles == Spec => []RolesRecent
<1>1. TypeOK /\ TokensTellWhatWasHeld /\ RequestsOnRecentRoles => RolesRecent
  BY DEF RolesRecent
<1> QED
  BY <1>1, TypeCorrect, TokensHeld, RequestsHeld, PTL
====
