---- MODULE AccessPolicy ----
(***************************************************************************)
(* Who may see what of the graph: the policies of the four roles, how the  *)
(* policies of several roles are merged, and how the rows of a query are   *)
(* filtered by the merged policy (auth/access_policy.py, auth/models.py,   *)
(* graph/nodes/graph_executor.py).                                         *)
(*                                                                         *)
(* A row is a sequence of values, one per column: a node [kind, labels,    *)
(* props], a relationship [kind, type, props], a scalar [kind, value], or  *)
(* a list, path or map [kind, items] of such values, where props is a      *)
(* function from property names to values.  "*" in the code is the set     *)
(* Props of all property names here.                                       *)
(***************************************************************************)
EXTENDS Integers, Sequences, FiniteSets

CONSTANTS
    Props,          \* the names of the properties nodes and relationships have
    Lower(_)        \* str.lower

Common == {"HAS_SKILL", "WORKS_ON", "BELONGS_TO", "HAS_POSITION", "REQUIRES",
           "HAS_CERTIFICATE", "LOCATED_AT", "OWNED_BY"}

Labels == {"Employee", "Skill", "Project", "Department", "Position",
           "Certificate", "Office", "Concept"}

RelTypes == Common \cup {"MENTORS", "IS_A", "SAME_AS"}

Rule(props, scope) == [props |-> props, scope |-> scope]
Open == Rule(Props, "all")

AdminRules == [l \in Labels |-> Open]

ManagerRules ==
    [l \in Labels \ {"Concept"} |->
        IF l \in {"Employee", "Project"} THEN Rule(Props, "department") ELSE Open]

EditorRules ==
    [l \in Labels \ {"Concept"} |->
        CASE l = "Employee" -> Rule({"name", "job_type", "years_experience", "hire_date",
                                     "availability", "max_projects"}, "all")
          [] l = "Project" -> Rule({"name", "type", "status", "start_date", "duration_months",
                                    "estimated_hours", "required_headcount"}, "all")
          [] l = "Department" -> Rule({"name", "head_count"}, "all")
          [] OTHER -> Open]

ViewerRules ==
    [l \in Labels \ {"Concept"} |->
        CASE l = "Employee" -> Rule({"name", "job_type", "max_projects"}, "all")
          [] l = "Project" -> Rule({"name", "type", "status", "required_headcount"}, "all")
          [] l \in {"Department", "Office"} -> Rule({"name"}, "all")
          [] l = "Position" -> Rule({"name", "level"}, "all")
          [] OTHER -> Open]

EditorRelRules ==
    [HAS_SKILL |-> {"proficiency", "years_used", "rate_factor"},
     WORKS_ON  |-> {"role", "contribution_percent", "allocated_hours"},
     REQUIRES  |-> {"required_proficiency", "required_headcount", "priority", "importance"}]

ViewerRelRules ==
    [HAS_SKILL |-> {"proficiency", "years_used"},
     WORKS_ON  |-> {"role"},
     REQUIRES  |-> {"required_proficiency", "priority", "importance"}]

NoRules == [l \in {} |-> {}]

DefaultRoles == {"admin", "manager", "editor", "viewer"}

\* ROLE_POLICIES
RolePolicies ==
    [admin   |-> [nodes |-> AdminRules,   rels |-> RelTypes,               relRules |-> NoRules],
     manager |-> [nodes |-> ManagerRules, rels |-> Common \cup {"MENTORS"}, relRules |-> NoRules],
     editor  |-> [nodes |-> EditorRules,  rels |-> Common,                 relRules |-> EditorRelRules],
     viewer  |-> [nodes |-> ViewerRules,  rels |-> Common,                 relRules |-> ViewerRelRules]]

(***************************************************************************)
(* get_access_policy: the rules of the known roles, united label by label. *)
(* A relationship type that no role's rules name has all its properties;   *)
(* a role without a rule for a type another role has a rule for adds       *)
(* nothing to it.                                                          *)
(***************************************************************************)
Known(roles) == roles \cap DefaultRoles

LabelRules(roles, label) ==
    {RolePolicies[r].nodes[label] :
        r \in {x \in Known(roles) : label \in DOMAIN RolePolicies[x].nodes}}

AllowedLabels(roles) == UNION {DOMAIN RolePolicies[r].nodes : r \in Known(roles)}
AllowedPropsMutant(roles, label) == {p \in Props : \A rule \in LabelRules(roles, label) : p \in rule.props}
AllowedProps(roles, label) == UNION {rule.props : rule \in LabelRules(roles, label)}
AllowedRels(roles) == UNION {RolePolicies[r].rels : r \in Known(roles)}

MergedScopeMutant(roles, label) ==
    IF \A rule \in LabelRules(roles, label) : rule.scope = "all" THEN "all" ELSE "department"

MergedScope(roles, label) ==
    IF \E rule \in LabelRules(roles, label) : rule.scope = "all" THEN "all" ELSE "department"

RelRuled(roles, type) == {r \in Known(roles) : type \in DOMAIN RolePolicies[r].relRules}

AllowedRelProps(roles, type) ==
    IF RelRuled(roles, type) = {} THEN Props
    ELSE UNION {RolePolicies[r].relRules[type] : r \in RelRuled(roles, type)}

(***************************************************************************)
(* The filter of the graph executor.  D1: every label of every node is     *)
(* allowed; D4: every relationship type is; D3: where the first label of a *)
(* node is scoped to the department, the user's department is one of those *)
(* the row names.  D2: only the allowed properties are left, by the first  *)
(* label of the node.  Only the columns themselves are looked at: what     *)
(* stands inside a list, a path or a map passes like a scalar.             *)
(***************************************************************************)
IsNode(value) == value.kind = "node"
IsRel(value) == value.kind = "rel"
NoDepartment == ""

DepartmentProp == [Department |-> "name", Employee |-> "department"]

RowDepartments(row) ==
    {Lower(row[i].props[DepartmentProp[row[i].labels[1]]]) :
        i \in {j \in DOMAIN row :
                 /\ IsNode(row[j]) /\ row[j].labels # <<>>
                 /\ row[j].labels[1] \in DOMAIN DepartmentProp
                 /\ DepartmentProp[row[j].labels[1]] \in DOMAIN row[j].props}}

OutOfDepartmentMutant(roles, department, row, label) ==
    /\ MergedScope(roles, label) = "department"
    /\ Lower(department) \in {NoDepartment}

OutOfDepartment(roles, department, row, label) ==
    /\ MergedScope(roles, label) = "department"
    /\ department # NoDepartment
    /\ RowDepartments(row) # {}
    /\ Lower(department) \notin RowDepartments(row)

ValueAllowed(roles, department, row, value) ==
    /\ IsNode(value) =>
         /\ value.labels # <<>>
         /\ \A k \in DOMAIN value.labels : value.labels[k] \in AllowedLabels(roles)
         /\ ~OutOfDepartment(roles, department, row, value.labels[1])
    /\ IsRel(value) => value.type \in AllowedRels(roles)

RecordAllowed(roles, department, row) ==
    \A i \in DOMAIN row : ValueAllowed(roles, department, row, row[i])

KeepProps(value, names) ==
    [value EXCEPT !.props = [p \in (DOMAIN value.props) \cap names |-> value.props[p]]]

FilterValue(roles, value) ==
    CASE IsNode(value) -> KeepProps(value, AllowedProps(roles, value.labels[1]))
      [] IsRel(value)  -> KeepProps(value, AllowedRelProps(roles, value.type))
      [] OTHER         -> value

FilterRecord(roles, row) == [i \in DOMAIN row |-> FilterValue(roles, row[i])]

\* _apply_access_policy, on the rows as a set: what is told and in which form
ApplyAccessPolicy(roles, department, rows) ==
    {FilterRecord(roles, row) : row \in {x \in rows : RecordAllowed(roles, department, x)}}

\* The nodes' labels and the relationship types of the schema in the prompt (_filter_schema_for_policy)
FilteredSchemaMutant(roles, schema) ==
    [labels |-> {l \in schema.labels \cap AllowedLabels(roles) : MergedScope(roles, l) = "all"},
     rels   |-> schema.rels \cap AllowedRels(roles)]

FilteredSchema(roles, schema) ==
    [labels |-> schema.labels \cap AllowedLabels(roles),
     rels   |-> schema.rels \cap AllowedRels(roles)]

(***************************************************************************)
(* The permissions of the roles: a pattern is <<area, name, act>>.         *)
(***************************************************************************)
AnyOne == "*"

RolePermissions ==
    LET read == {<<"query", AnyOne, "search">>, <<"node", AnyOne, "read">>, <<"analytics", AnyOne, "read">>}
        edit == {<<"graph", "edit", "read">>, <<"graph", "edit", "write">>}
    IN  [admin   |-> {<<AnyOne, AnyOne, AnyOne>>},
         manager |-> read \cup edit \cup {<<"admin", "ontology", "read">>, <<"admin", "ontology", "write">>},
         editor  |-> read \cup edit,
         viewer  |-> read]

PermissionsForRoles(roles) == UNION {RolePermissions[r] : r \in Known(roles)}

CheckPermission(granted, required) == \A i \in 1..3 : granted[i] \in {AnyOne, required[i]}

HasPermission(roles, required) ==
    \/ "admin" \in roles
    \/ \E granted \in PermissionsForRoles(roles) : CheckPermission(granted, required)
====
