--------------------------- MODULE AccessControl ---------------------------
(***************************************************************************)
(* Accounts, roles and permissions: UsersService and AccessControlService, *)
(* behind JwtStrategy and PermissionsGuard, which read the account and its *)
(* permissions anew for every request.  A handler reads, checks and writes *)
(* without a transaction; only the two lists (the roles of a user, the     *)
(* permissions of a role) are replaced in one, READ COMMITTED and without  *)
(* a lock on their owner.                                                  *)
(*                                                                         *)
(* Role names are "admin", "user", which the code knows, or "other", which *)
(* stands for every other name; the key "users" stands for those that the  *)
(* users controller asks for, "access" for those of the roles and          *)
(* permissions controllers.  The rows of user_roles and role_permissions   *)
(* are kept at their owner, the user or the role.                          *)
(***************************************************************************)
CONSTANTS Users, Roles, Permissions, Calls,
          FirstAdmin, AdminRole, UserRole, Wildcard,  \* rows of the seed
          RoleLists, PermissionLists,                 \* the lists requests give
          Nobody, NoRequest

ASSUME AccessAssumption ==
    /\ FirstAdmin \in Users /\ Wildcard \in Permissions
    /\ AdminRole \in Roles /\ UserRole \in Roles /\ AdminRole # UserRole
    /\ RoleLists \subseteq SUBSET Roles /\ PermissionLists \subseteq SUBSET Permissions
    /\ Nobody \notin Users
    /\ Users \cap Roles = {} /\ Users \cap Permissions = {} /\ Roles \cap Permissions = {}

VARIABLES
    \* The database.
    account,   \* users.is_active, "unborn" before the row is inserted
    roleName,  \* roles.name, "unborn" before and "gone" after the row
    permKey,   \* permissions.key, likewise
    links,     \* user_roles and role_permissions, by their owner
    \* The calls.
    phase, request, actor,
    default,   \* the roles named 'user' that a registration has found
    found,     \* the rows that a deleteMany has found
    \* History.
    renamed,   \* a seeded role or the permission '*' has been renamed
    lastList,  \* the list given to each owner last
    mixed      \* owners whose list was replaced by two transactions at once

rowVars == <<account, roleName, permKey>>
listVars == <<links, lastList, mixed>>
callVars == <<phase, request, actor, default, found>>
vars == <<rowVars, listVars, callVars, renamed>>

Owners == Users \cup Roles
Missing == {"unborn", "gone"}
BaseNames == {"admin", "user"}
Keys == {"users", "access"}   \* what the DTO lets a request write: never '*'

\* What each handler is called with.
Named(o, ts, vs) == [op : {o}, target : ts, value : vs, list : {{}}]
Listed(o, ts, ls) == [op : {o}, target : ts, value : {"listed"}, list : ls]
UserRequests ==
    Named("setActive", Users, {"active", "inactive"}) \cup
    Listed("assignRoles", Users, RoleLists) \cup
    Listed("createByAdmin", Users, RoleLists) \cup Named("createByAdmin", Users, {"default"})
AccessRequests ==
    Named("createRole", Roles, BaseNames \cup {"other"}) \cup
    Named("updateRole", Roles, BaseNames \cup {"other"}) \cup
    Named("deleteRole", Roles, {"-"}) \cup
    Listed("assignPermissions", Roles, PermissionLists) \cup
    Named("createPermission", Permissions, Keys) \cup
    Named("updatePermission", Permissions, Keys) \cup
    Named("deletePermission", Permissions, {"-"})
Registrations == Named("register", Users, {"default"})
Requests == UserRequests \cup AccessRequests \cup Registrations

\* What seed.ts leaves, and some accounts and permissions given out since.
Init == /\ account \in [Users -> {"unborn", "active"}] /\ account[FirstAdmin] = "active"
        /\ roleName = [r \in Roles |-> IF r = AdminRole THEN "admin"
                                       ELSE IF r = UserRole THEN "user" ELSE "other"]
        /\ permKey \in [Permissions -> Keys \cup {"*"}]
        /\ \A p \in Permissions : permKey[p] = "*" <=> p = Wildcard
        /\ \E roles \in RoleLists, permissions \in PermissionLists :
              links = [x \in Owners |->
                          CASE x = FirstAdmin -> {AdminRole}
                            [] x = AdminRole -> {Wildcard}
                            [] x = UserRole -> {}
                            [] x \in Roles \ {AdminRole, UserRole} -> permissions
                            [] x \in Users \ {FirstAdmin} ->
                                  IF account[x] = "active" THEN roles ELSE {}]
        /\ phase = [c \in Calls |-> "idle"]
        /\ request = [c \in Calls |-> NoRequest]
        /\ actor = [c \in Calls |-> Nobody]
        /\ default = [c \in Calls |-> {}]
        /\ found = [c \in Calls |-> {}]
        /\ renamed = FALSE
        /\ lastList = links
        /\ mixed = {}

Goto(c, from, to) == phase[c] = from /\ phase' = [phase EXCEPT ![c] = to]

-----------------------------------------------------------------------------
(* A request comes in.                                                     *)

\* The keys that JwtStrategy gathers through the roles of the account.
Held(u) == {permKey[p] : p \in UNION {links[r] : r \in links[u]}}

MayCall(u, q) ==
    /\ account[u] = "active"
    /\ Held(u) \cap {"*", IF q \in UserRequests THEN "users" ELSE "access"} # {}

\* Mutant: only a deactivation is checked.
DeactivatesSelf(u, q) == q.op = "setActive" /\ q.target = u /\ q.value = "inactive"

\* Nobody deactivates the own account or replaces the own roles.
AgainstSelf(u, q) ==
    /\ q.target = u
    /\ q.op = "assignRoles" \/ (q.op = "setActive" /\ q.value = "inactive")

\* The guards let the request through; those they turn away leave no trace,
\* nor do those that the handler refuses at once.
Arrive(c, u, q) ==
    /\ Goto(c, "idle", "find")
    /\ MayCall(u, q)
    /\ ~ AgainstSelf(u, q)
    /\ request' = [request EXCEPT ![c] = q]
    /\ actor' = [actor EXCEPT ![c] = u]
    /\ UNCHANGED <<rowVars, listVars, default, found, renamed>>

\* POST /auth/register is public.
ArriveToRegister(c, q) ==
    /\ Goto(c, "idle", "find")
    /\ request' = [request EXCEPT ![c] = q]
    /\ UNCHANGED <<rowVars, listVars, actor, default, found, renamed>>

\* 4xx: the row is missing, protected or listed twice, or a name, key or
\* address is taken; 500: a statement fails; or the process dies.
Ends(c) ==
    /\ phase[c] \notin {"idle", "done"}
    /\ phase' = [phase EXCEPT ![c] = "done"]
    /\ UNCHANGED <<rowVars, listVars, request, actor, default, found, renamed>>

-----------------------------------------------------------------------------
(* What a handler reads and checks before it writes.                       *)

RoleExists(r) == roleName[r] \notin Missing
PermissionExists(p) == permKey[p] \notin Missing

\* Mutant: the permission '*' may be deleted.
ProtectedRoles(q) ==
    \/ q.op = "deleteRole" /\ roleName[q.target] \in BaseNames
    \/ q.op = "assignPermissions" /\ roleName[q.target] = "admin"

\* The rows that the code refuses to touch, by the name they have now.
Protected(q) ==
    \/ q.op = "deleteRole" /\ roleName[q.target] \in BaseNames
    \/ q.op = "assignPermissions" /\ roleName[q.target] = "admin"
    \/ q.op = "deletePermission" /\ permKey[q.target] = "*"

\* Names other than the base names are not told apart, so they never clash
\* here; a request for one that is taken is among those that Ends refuses.
NameTaken(name) == name \in BaseNames /\ \E r \in Roles : roleName[r] = name

\* requireUser, requireRole, requirePermission; or the look-up of the row to be
\* created.  The id of a row is new when the row is created.
Fits(q) ==
    CASE q.op \in {"setActive", "assignRoles"} -> account[q.target] # "unborn"
      [] q.op \in {"createByAdmin", "register"} -> account[q.target] = "unborn"
      [] q.op = "createRole" -> roleName[q.target] = "unborn" /\ ~ NameTaken(q.value)
      [] q.op = "createPermission" -> permKey[q.target] = "unborn"
      [] q.op \in {"updateRole", "deleteRole", "assignPermissions"} -> RoleExists(q.target)
      [] q.op \in {"updatePermission", "deletePermission"} -> PermissionExists(q.target)

Find(c) ==
    LET q == request[c] IN
    /\ Goto(c, "find", IF q.value = "listed" THEN "check"
                       ELSE IF q.value = "default" THEN "default" ELSE "write")
    /\ Fits(q) /\ ~ Protected(q)
    /\ UNCHANGED <<rowVars, listVars, request, actor, default, found, renamed>>

\* validateRoleIds, or the count of the permissions: every row is there.
CheckList(c) ==
    LET q == request[c] IN
    /\ Goto(c, "check", IF q.op = "createByAdmin" THEN "write" ELSE "delete")
    /\ \A x \in q.list : IF x \in Roles THEN RoleExists(x) ELSE PermissionExists(x)
    /\ UNCHANGED <<rowVars, listVars, request, actor, default, found, renamed>>

\* The role of new accounts is the one with the name 'user', if there is one.
FindDefaultRole(c) ==
    /\ Goto(c, "default", "write")
    /\ default' = [default EXCEPT ![c] = {r \in Roles : roleName[r] = "user"}]
    /\ UNCHANGED <<rowVars, listVars, request, actor, found, renamed>>

-----------------------------------------------------------------------------
(* Writes of one row.  An UPDATE or DELETE of a row that is gone fails.    *)

Writes(c, operations) ==
    /\ Goto(c, "write", "done")
    /\ request[c].op \in operations
    /\ UNCHANGED <<request, actor, default, found>>

SetActive(c) ==
    LET q == request[c] IN
    /\ Writes(c, {"setActive"})
    /\ account' = [account EXCEPT ![q.target] = q.value]
    /\ UNCHANGED <<roleName, permKey, listVars, renamed>>

\* The account and its rows of user_roles, all or nothing.
InsertUser(c) ==
    LET q == request[c]  roles == q.list \cup default[c] IN
    /\ Writes(c, {"createByAdmin", "register"})
    /\ account[q.target] = "unborn"
    /\ \A r \in roles : RoleExists(r)
    /\ account' = [account EXCEPT ![q.target] = "active"]
    /\ links' = [links EXCEPT ![q.target] = roles]
    /\ lastList' = [lastList EXCEPT ![q.target] = roles]
    /\ UNCHANGED <<roleName, permKey, mixed, renamed>>

\* createRole and updateRole; names are unique.
WriteRole(c) ==
    LET q == request[c] IN
    /\ Writes(c, {"createRole", "updateRole"})
    /\ IF q.op = "createRole" THEN roleName[q.target] = "unborn" ELSE RoleExists(q.target)
    /\ q.value = roleName[q.target] \/ ~ NameTaken(q.value)
    /\ roleName' = [roleName EXCEPT ![q.target] = q.value]
    /\ renamed' = (renamed \/ roleName[q.target] \in BaseNames \ {q.value})
    /\ UNCHANGED <<account, permKey, listVars>>

WritePermission(c) ==
    LET q == request[c] IN
    /\ Writes(c, {"createPermission", "updatePermission"})
    /\ IF q.op = "createPermission" THEN permKey[q.target] = "unborn"
                                    ELSE PermissionExists(q.target)
    /\ permKey' = [permKey EXCEPT ![q.target] = q.value]
    /\ renamed' = (renamed \/ permKey[q.target] = "*")
    /\ UNCHANGED <<account, roleName, listVars>>

\* ON DELETE CASCADE removes the row from every list, and a role's own list.
Without(x, ls) == [o \in Owners |-> IF o = x THEN {} ELSE ls[o] \ {x}]
Cascade(x) == links' = Without(x, links) /\ lastList' = Without(x, lastList)

DeleteRole(c) ==
    LET r == request[c].target IN
    /\ Writes(c, {"deleteRole"})
    /\ RoleExists(r)
    /\ roleName' = [roleName EXCEPT ![r] = "gone"]
    /\ Cascade(r)
    /\ UNCHANGED <<account, permKey, mixed, renamed>>

DeletePermission(c) ==
    LET p == request[c].target IN
    /\ Writes(c, {"deletePermission"})
    /\ PermissionExists(p)
    /\ permKey' = [permKey EXCEPT ![p] = "gone"]
    /\ Cascade(p)
    /\ UNCHANGED <<account, roleName, mixed, renamed>>

-----------------------------------------------------------------------------
(* assignRoles and assignPermissions replace a list in a transaction of    *)
(* two statements.  A deleteMany waits for rows that another transaction   *)
(* is deleting and passes over them once they are gone; a createMany waits *)
(* likewise.  Whoever commits first has won, so the waiting is left out.   *)

\* Mutant: deleteMany has another owner in its condition.
FindNoRows(c) ==
    /\ Goto(c, "delete", "insert")
    /\ UNCHANGED <<rowVars, links, lastList, mixed, request, actor, default, found, renamed>>

\* deleteMany finds the rows committed by now.
FindRows(c) ==
    LET owner == request[c].target IN
    /\ Goto(c, "delete", "insert")
    /\ found' = [found EXCEPT ![c] = links[owner]]
    /\ mixed' = IF \E d \in Calls : phase[d] = "insert" /\ request[d].target = owner
                THEN mixed \cup {owner} ELSE mixed
    /\ UNCHANGED <<rowVars, links, lastList, request, actor, default, renamed>>

\* createMany and the commit; the keys of the rows are unique, and the foreign
\* keys hold.
InsertRows(c) ==
    LET owner == request[c].target  list == request[c].list IN
    /\ Goto(c, "insert", "done")
    /\ owner \in Roles => RoleExists(owner)
    /\ \A x \in list : IF x \in Roles THEN RoleExists(x) ELSE PermissionExists(x)
    /\ list \cap (links[owner] \ found[c]) = {}
    /\ links' = [links EXCEPT ![owner] = (@ \ found[c]) \cup list]
    /\ lastList' = [lastList EXCEPT ![owner] = list]
    /\ found' = [d \in Calls |-> IF phase[d] = "insert" /\ request[d].target = owner
                                 THEN found[d] \ found[c] ELSE found[d]]
    /\ UNCHANGED <<rowVars, mixed, request, actor, default, renamed>>

-----------------------------------------------------------------------------
Step(c) == \/ Find(c) \/ CheckList(c) \/ FindDefaultRole(c) \/ Ends(c)
           \/ SetActive(c) \/ InsertUser(c) \/ WriteRole(c) \/ WritePermission(c)
           \/ DeleteRole(c) \/ DeletePermission(c) \/ FindRows(c) \/ InsertRows(c)

Next == \E c \in Calls :
           \/ \E u \in Users, q \in UserRequests \cup AccessRequests : Arrive(c, u, q)
           \/ \E q \in Registrations : ArriveToRegister(c, q)
           \/ Step(c)

Spec == Init /\ [][Next]_vars

-----------------------------------------------------------------------------
(* Properties.                                                             *)

TypeOK ==
    /\ account \in [Users -> {"unborn", "active", "inactive"}]
    /\ roleName \in [Roles -> BaseNames \cup Missing \cup {"other"}]
    /\ permKey \in [Permissions -> Keys \cup Missing \cup {"*"}]
    /\ links \in [Owners -> SUBSET (Roles \cup Permissions)]
    /\ lastList \in [Owners -> SUBSET (Roles \cup Permissions)]
    /\ mixed \subseteq Owners
    /\ phase \in [Calls -> {"idle", "find", "check", "default", "write", "delete",
                            "insert", "done"}]
    /\ request \in [Calls -> Requests \cup {NoRequest}]
    /\ actor \in [Calls -> Users \cup {Nobody}]
    /\ default \in [Calls -> SUBSET Roles]
    /\ found \in [Calls -> SUBSET (Roles \cup Permissions)]
    /\ renamed \in BOOLEAN

\* The rows that the code protects by their names, the two base roles and the
\* permission '*' (AccessControlService), stay with the administrators' role
\* holding '*', as long as nobody renames one of them.  updateRole does rename
\* base roles, and one that has been renamed can be deleted although deleteRole
\* says 'El rol base no puede eliminarse'.
ProtectedRowsStay ==
    ~ renamed => /\ roleName[AdminRole] = "admin" /\ roleName[UserRole] = "user"
                 /\ permKey[Wildcard] = "*" /\ Wildcard \in links[AdminRole]

\* The roles of a user and the permissions of a role are those of the list
\* given last, less those deleted since, unless two transactions replaced the
\* list at the same time: they do not lock the owner, and the later one leaves
\* the rows of the other.
ListsMixOnlyInRaces == \A o \in Owners \ mixed : links[o] = lastList[o]

\* The request of a call fits where the call stands.
RequestFits(c) ==
    LET q == request[c] IN
    /\ phase[c] \notin {"idle", "done"} => q \in Requests /\ ~ AgainstSelf(actor[c], q)
    /\ phase[c] = "check" => q.value = "listed"
    /\ phase[c] \in {"delete", "insert"} => q.op \in {"assignRoles", "assignPermissions"}

\* A call past its checks is not about to touch what ProtectedRowsStay protects.
Spares(c) ==
    LET q == request[c] IN
    /\ q.op = "deleteRole" => q.target \notin {AdminRole, UserRole}
    /\ q.op = "assignPermissions" => q.target # AdminRole
    /\ q.op = "deletePermission" => q.target # Wildcard

\* A transaction that replaces a list alone has found all that is in it.
ReplacesAlone(c) ==
    LET owner == request[c].target IN
    /\ owner \in Users => account[owner] # "unborn"
    /\ owner \notin mixed =>
          /\ links[owner] \subseteq found[c]
          /\ \A d \in Calls \ {c} : phase[d] = "insert" => request[d].target # owner

\* The inductive invariant: the two above, and what they rest on.
AccessInvariant ==
    /\ TypeOK
    /\ ProtectedRowsStay
    /\ ListsMixOnlyInRaces
    /\ \A c \in Calls :
          /\ RequestFits(c)
          /\ phase[c] \notin {"idle", "find", "done"} /\ ~ renamed => Spares(c)
          /\ phase[c] \in {"check", "delete"} /\ request[c].op = "assignRoles" =>
                account[request[c].target] # "unborn"
          /\ phase[c] = "insert" => ReplacesAlone(c)

\* An active member of the role that the seed calls 'admin'.
Administrators == {u \in Users : account[u] = "active" /\ AdminRole \in links[u]}

\* The last administrator never falls to a call of an administrator: only to
\* one of an account that has the key without the role, or of one that has
\* itself ceased to be an administrator since it was let through (two
\* administrators who deactivate each other).
LastAdministratorFallsToOthers ==
    [][(Administrators # {} /\ Administrators' = {} /\ ~ renamed') =>
          \E c \in Calls : phase'[c] # phase[c] /\ actor[c] \notin Administrators]_vars
=============================================================================
