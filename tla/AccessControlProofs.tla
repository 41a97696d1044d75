------------------------ MODULE AccessControlProofs ------------------------
(***************************************************************************)
(* Proofs of AccessControl: its inductive invariant, and what follows from *)
(* it for the rows the code protects, for the lists and for the last       *)
(* administrator, whatever the accounts, roles, permissions and calls.     *)
(***************************************************************************)
EXTENDS AccessControl, TLAPS

\* What a request says of its own target, value and list.
Shape(q) ==
    /\ q.op \in {"setActive", "assignRoles", "createByAdmin", "register"} =>
          q.target \in Users /\ q.list \subseteq Roles
    /\ q.op = "assignPermissions" => q.target \in Roles /\ q.list \subseteq Permissions
    /\ q.op \in {"createRole", "updateRole", "deleteRole"} => q.target \in Roles
    /\ q.op \in {"createPermission", "updatePermission", "deletePermission"} =>
          q.target \in Permissions
    /\ q.op = "setActive" => q.value \in {"active", "inactive"}
    /\ q.op \in {"createRole", "updateRole"} => q.value \in BaseNames \cup {"other"}
    /\ q.op \in {"createPermission", "updatePermission"} => q.value \in Keys
    /\ q.value = "listed" => q.op \in {"assignRoles", "createByAdmin", "assignPermissions"}
    /\ q.op \in {"assignRoles", "assignPermissions"} => q.value = "listed"

\* Every request the handlers can be called with has that shape.
LEMMA RequestShape == ASSUME NEW q \in Requests PROVE Shape(q)
<1>. USE AccessAssumption DEF Shape, Named, Listed, Keys, BaseNames
<1>1. CASE q \in UserRequests BY <1>1 DEF UserRequests
<1>2. CASE q \in AccessRequests BY <1>2 DEF AccessRequests
<1>3. CASE q \in Registrations BY <1>3 DEF Registrations
<1>. QED BY <1>1, <1>2, <1>3 DEF Requests

\* The invariant, conjunct by conjunct, for one call.
Stands(c) ==
    /\ RequestFits(c)
    /\ phase[c] \notin {"idle", "find", "done"} /\ ~ renamed => Spares(c)
    /\ phase[c] \in {"check", "delete"} /\ request[c].op = "assignRoles" =>
          account[request[c].target] # "unborn"
    /\ phase[c] = "insert" => ReplacesAlone(c)

LEMMA InvariantByCall ==
    AccessInvariant <=> /\ TypeOK /\ ProtectedRowsStay /\ ListsMixOnlyInRaces
                        /\ \A c \in Calls : Stands(c)
BY DEF AccessInvariant, Stands

LEMMA InvariantByCallNext ==
    AccessInvariant' <=> /\ TypeOK' /\ ProtectedRowsStay' /\ ListsMixOnlyInRaces'
                         /\ \A c \in Calls : Stands(c)'
BY DEF AccessInvariant, Stands

\* The initial states satisfy it.
LEMMA InitHolds == ASSUME Init PROVE AccessInvariant
<1>1. TypeOK
  <2>1. links \in [Owners -> SUBSET (Roles \cup Permissions)]
    BY AccessAssumption DEF Init, Owners
  <2>2. /\ account \in [Users -> {"unborn", "active", "inactive"}]
        /\ roleName \in [Roles -> BaseNames \cup Missing \cup {"other"}]
        /\ permKey \in [Permissions -> Keys \cup Missing \cup {"*"}]
    BY DEF Init, BaseNames, Missing
  <2>3. /\ phase \in [Calls -> {"idle", "find", "check", "default", "write", "delete",
                               "insert", "done"}]
        /\ request \in [Calls -> Requests \cup {NoRequest}]
        /\ actor \in [Calls -> Users \cup {Nobody}]
        /\ default \in [Calls -> SUBSET Roles]
        /\ found \in [Calls -> SUBSET (Roles \cup Permissions)]
    BY DEF Init
  <2>4. lastList = links /\ mixed = {} /\ renamed = FALSE BY DEF Init
  <2>. QED BY <2>1, <2>2, <2>3, <2>4 DEF TypeOK
<1>2. ProtectedRowsStay
  <2>1. links[AdminRole] = {Wildcard}
    BY AccessAssumption DEF Init, Owners
  <2>. QED BY <2>1, AccessAssumption DEF Init, ProtectedRowsStay
<1>3. ListsMixOnlyInRaces BY DEF Init, ListsMixOnlyInRaces
<1>4. \A c \in Calls : Stands(c) BY DEF Init, Stands, RequestFits
<1>. QED BY <1>1, <1>2, <1>3, <1>4, InvariantByCall

\* A request that arrives has been found not to be turned against its maker.
LEMMA ArriveHolds ==
    ASSUME AccessInvariant, NEW c \in Calls, NEW u \in Users,
           NEW q \in UserRequests \cup AccessRequests, Arrive(c, u, q)
    PROVE  AccessInvariant'
<1>. USE AccessAssumption DEF Goto, rowVars, listVars
<1>0. TypeOK /\ ProtectedRowsStay /\ ListsMixOnlyInRaces /\ \A d \in Calls : Stands(d)
  BY InvariantByCall
<1>r. /\ phase \in [Calls -> {"idle", "find", "check", "default", "write", "delete",
                             "insert", "done"}]
      /\ phase[c] \notin {"idle", "done"} => request[c] \in Requests /\ Shape(request[c])
  BY <1>0, RequestShape DEF TypeOK, Stands, RequestFits
<1>q. \A d \in Calls : phase[d] = "insert" => request[d].target \in Owners
  BY <1>0, RequestShape DEF Stands, RequestFits, Shape, Owners
<1>1. TypeOK'
  BY <1>0, <1>r DEF Arrive, TypeOK, Requests
<1>2. ProtectedRowsStay'
  BY <1>0, <1>r DEF Arrive, ProtectedRowsStay
<1>3. ListsMixOnlyInRaces'
  BY <1>0, <1>r DEF Arrive, ListsMixOnlyInRaces
<1>4. ASSUME NEW d \in Calls PROVE Stands(d)'
  <2>1. RequestFits(d)'
    BY <1>0, <1>r DEF Arrive, Stands, RequestFits, AgainstSelf, Requests, TypeOK
  <2>2. (phase[d] \notin {"idle", "find", "done"} /\ ~ renamed => Spares(d))'
    BY <1>0, <1>r DEF Arrive, Stands, Spares
  <2>3. (phase[d] \in {"check", "delete"} /\ request[d].op = "assignRoles" =>
             account[request[d].target] # "unborn")'
    BY <1>0, <1>r DEF Arrive, Stands
  <2>4. (phase[d] = "insert" => ReplacesAlone(d))'
    BY <1>0, <1>r DEF Arrive, Stands, ReplacesAlone
  <2>. QED BY <2>1, <2>2, <2>3, <2>4 DEF Stands
<1>. QED BY <1>1, <1>2, <1>3, <1>4, InvariantByCallNext

\* A registration touches nobody.
LEMMA RegisterHolds ==
    ASSUME AccessInvariant, NEW c \in Calls, NEW q \in Registrations, ArriveToRegister(c, q)
    PROVE  AccessInvariant'
<1>. USE AccessAssumption DEF Goto, rowVars, listVars
<1>0. TypeOK /\ ProtectedRowsStay /\ ListsMixOnlyInRaces /\ \A d \in Calls : Stands(d)
  BY InvariantByCall
<1>r. /\ phase \in [Calls -> {"idle", "find", "check", "default", "write", "delete",
                             "insert", "done"}]
      /\ phase[c] \notin {"idle", "done"} => request[c] \in Requests /\ Shape(request[c])
  BY <1>0, RequestShape DEF TypeOK, Stands, RequestFits
<1>q. \A d \in Calls : phase[d] = "insert" => request[d].target \in Owners
  BY <1>0, RequestShape DEF Stands, RequestFits, Shape, Owners
<1>1. TypeOK'
  BY <1>0, <1>r DEF ArriveToRegister, TypeOK, Requests
<1>2. ProtectedRowsStay'
  BY <1>0, <1>r DEF ArriveToRegister, ProtectedRowsStay
<1>3. ListsMixOnlyInRaces'
  BY <1>0, <1>r DEF ArriveToRegister, ListsMixOnlyInRaces
<1>4. ASSUME NEW d \in Calls PROVE Stands(d)'
  <2>1. RequestFits(d)'
    BY <1>0, <1>r DEF ArriveToRegister, Stands, RequestFits, AgainstSelf, Requests,
       Registrations, Named, TypeOK
  <2>2. (phase[d] \notin {"idle", "find", "done"} /\ ~ renamed => Spares(d))'
    BY <1>0, <1>r DEF ArriveToRegister, Stands, Spares
  <2>3. (phase[d] \in {"check", "delete"} /\ request[d].op = "assignRoles" =>
             account[request[d].target] # "unborn")'
    BY <1>0, <1>r DEF ArriveToRegister, Stands
  <2>4. (phase[d] = "insert" => ReplacesAlone(d))'
    BY <1>0, <1>r DEF ArriveToRegister, Stands, ReplacesAlone
  <2>. QED BY <2>1, <2>2, <2>3, <2>4 DEF Stands
<1>. QED BY <1>1, <1>2, <1>3, <1>4, InvariantByCallNext

\* A call that ends early changes nothing.
LEMMA EndsHolds ==
    ASSUME AccessInvariant, NEW c \in Calls, Ends(c)
    PROVE  AccessInvariant'
<1>. USE AccessAssumption DEF Goto, rowVars, listVars
<1>0. TypeOK /\ ProtectedRowsStay /\ ListsMixOnlyInRaces /\ \A d \in Calls : Stands(d)
  BY InvariantByCall
<1>r. /\ phase \in [Calls -> {"idle", "find", "check", "default", "write", "delete",
                             "insert", "done"}]
      /\ phase[c] \notin {"idle", "done"} => request[c] \in Requests /\ Shape(request[c])
  BY <1>0, RequestShape DEF TypeOK, Stands, RequestFits
<1>q. \A d \in Calls : phase[d] = "insert" => request[d].target \in Owners
  BY <1>0, RequestShape DEF Stands, RequestFits, Shape, Owners
<1>1. TypeOK'
  BY <1>0, <1>r DEF Ends, TypeOK, Shape
<1>2. ProtectedRowsStay'
  BY <1>0, <1>r DEF Ends, ProtectedRowsStay
<1>3. ListsMixOnlyInRaces'
  BY <1>0, <1>r DEF Ends, ListsMixOnlyInRaces
<1>4. ASSUME NEW d \in Calls PROVE Stands(d)'
  <2>1. RequestFits(d)'
    BY <1>0, <1>r DEF Ends, Stands, RequestFits, AgainstSelf, Shape
  <2>2. (phase[d] \notin {"idle", "find", "done"} /\ ~ renamed => Spares(d))'
    BY <1>0, <1>r DEF Ends, Stands, Spares
  <2>3. (phase[d] \in {"check", "delete"} /\ request[d].op = "assignRoles" =>
             account[request[d].target] # "unborn")'
    BY <1>0, <1>r DEF Ends, Stands
  <2>4. (phase[d] = "insert" => ReplacesAlone(d))'
    BY <1>0, <1>r DEF Ends, Stands, ReplacesAlone
  <2>. QED BY <2>1, <2>2, <2>3, <2>4 DEF Stands
<1>. QED BY <1>1, <1>2, <1>3, <1>4, InvariantByCallNext

\* A call that finds its row is past the check of its name.
LEMMA FindHolds ==
    ASSUME AccessInvariant, NEW c \in Calls, Find(c)
    PROVE  AccessInvariant'
<1>. USE AccessAssumption DEF Goto, rowVars, listVars
<1>0. TypeOK /\ ProtectedRowsStay /\ ListsMixOnlyInRaces /\ \A d \in Calls : Stands(d)
  BY InvariantByCall
<1>r. /\ phase \in [Calls -> {"idle", "find", "check", "default", "write", "delete",
                             "insert", "done"}]
      /\ phase[c] \notin {"idle", "done"} => request[c] \in Requests /\ Shape(request[c])
  BY <1>0, RequestShape DEF TypeOK, Stands, RequestFits
<1>q. \A d \in Calls : phase[d] = "insert" => request[d].target \in Owners
  BY <1>0, RequestShape DEF Stands, RequestFits, Shape, Owners
<1>1. TypeOK'
  BY <1>0, <1>r DEF Find, TypeOK, Shape
<1>2. ProtectedRowsStay'
  BY <1>0, <1>r DEF Find, ProtectedRowsStay
<1>3. ListsMixOnlyInRaces'
  BY <1>0, <1>r DEF Find, ListsMixOnlyInRaces
<1>4. ASSUME NEW d \in Calls PROVE Stands(d)'
  <2>1. RequestFits(d)'
    BY <1>0, <1>r DEF Find, Stands, RequestFits, AgainstSelf, Shape
  <2>2. (phase[d] \notin {"idle", "find", "done"} /\ ~ renamed => Spares(d))'
    BY <1>0, <1>r DEF Find, Stands, Spares, Protected, ProtectedRowsStay, BaseNames
  <2>3. (phase[d] \in {"check", "delete"} /\ request[d].op = "assignRoles" =>
             account[request[d].target] # "unborn")'
    BY <1>0, <1>r DEF Find, Stands, Fits
  <2>4. (phase[d] = "insert" => ReplacesAlone(d))'
    BY <1>0, <1>r DEF Find, Stands, ReplacesAlone
  <2>. QED BY <2>1, <2>2, <2>3, <2>4 DEF Stands
<1>. QED BY <1>1, <1>2, <1>3, <1>4, InvariantByCallNext

\* Counting the rows changes nothing.
LEMMA CheckListHolds ==
    ASSUME AccessInvariant, NEW c \in Calls, CheckList(c)
    PROVE  AccessInvariant'
<1>. USE AccessAssumption DEF Goto, rowVars, listVars
<1>0. TypeOK /\ ProtectedRowsStay /\ ListsMixOnlyInRaces /\ \A d \in Calls : Stands(d)
  BY InvariantByCall
<1>r. /\ phase \in [Calls -> {"idle", "find", "check", "default", "write", "delete",
                             "insert", "done"}]
      /\ phase[c] \notin {"idle", "done"} => request[c] \in Requests /\ Shape(request[c])
  BY <1>0, RequestShape DEF TypeOK, Stands, RequestFits
<1>q. \A d \in Calls : phase[d] = "insert" => request[d].target \in Owners
  BY <1>0, RequestShape DEF Stands, RequestFits, Shape, Owners
<1>1. TypeOK'
  BY <1>0, <1>r DEF CheckList, TypeOK, Shape
<1>2. ProtectedRowsStay'
  BY <1>0, <1>r DEF CheckList, ProtectedRowsStay
<1>3. ListsMixOnlyInRaces'
  BY <1>0, <1>r DEF CheckList, ListsMixOnlyInRaces
<1>4. ASSUME NEW d \in Calls PROVE Stands(d)'
  <2>1. RequestFits(d)'
    BY <1>0, <1>r DEF CheckList, Stands, RequestFits, AgainstSelf, Shape
  <2>2. (phase[d] \notin {"idle", "find", "done"} /\ ~ renamed => Spares(d))'
    BY <1>0, <1>r DEF CheckList, Stands, Spares
  <2>3. (phase[d] \in {"check", "delete"} /\ request[d].op = "assignRoles" =>
             account[request[d].target] # "unborn")'
    BY <1>0, <1>r DEF CheckList, Stands
  <2>4. (phase[d] = "insert" => ReplacesAlone(d))'
    BY <1>0, <1>r DEF CheckList, Stands, ReplacesAlone
  <2>. QED BY <2>1, <2>2, <2>3, <2>4 DEF Stands
<1>. QED BY <1>1, <1>2, <1>3, <1>4, InvariantByCallNext

\* Nor does looking for the default role.
LEMMA FindDefaultHolds ==
    ASSUME AccessInvariant, NEW c \in Calls, FindDefaultRole(c)
    PROVE  AccessInvariant'
<1>. USE AccessAssumption DEF Goto, rowVars, listVars
<1>0. TypeOK /\ ProtectedRowsStay /\ ListsMixOnlyInRaces /\ \A d \in Calls : Stands(d)
  BY InvariantByCall
<1>r. /\ phase \in [Calls -> {"idle", "find", "check", "default", "write", "delete",
                             "insert", "done"}]
      /\ phase[c] \notin {"idle", "done"} => request[c] \in Requests /\ Shape(request[c])
  BY <1>0, RequestShape DEF TypeOK, Stands, RequestFits
<1>q. \A d \in Calls : phase[d] = "insert" => request[d].target \in Owners
  BY <1>0, RequestShape DEF Stands, RequestFits, Shape, Owners
<1>1. TypeOK'
  BY <1>0, <1>r DEF FindDefaultRole, TypeOK, Shape
<1>2. ProtectedRowsStay'
  BY <1>0, <1>r DEF FindDefaultRole, ProtectedRowsStay
<1>3. ListsMixOnlyInRaces'
  BY <1>0, <1>r DEF FindDefaultRole, ListsMixOnlyInRaces
<1>4. ASSUME NEW d \in Calls PROVE Stands(d)'
  <2>1. RequestFits(d)'
    BY <1>0, <1>r DEF FindDefaultRole, Stands, RequestFits, AgainstSelf, Shape
  <2>2. (phase[d] \notin {"idle", "find", "done"} /\ ~ renamed => Spares(d))'
    BY <1>0, <1>r DEF FindDefaultRole, Stands, Spares
  <2>3. (phase[d] \in {"check", "delete"} /\ request[d].op = "assignRoles" =>
             account[request[d].target] # "unborn")'
    BY <1>0, <1>r DEF FindDefaultRole, Stands
  <2>4. (phase[d] = "insert" => ReplacesAlone(d))'
    BY <1>0, <1>r DEF FindDefaultRole, Stands, ReplacesAlone
  <2>. QED BY <2>1, <2>2, <2>3, <2>4 DEF Stands
<1>. QED BY <1>1, <1>2, <1>3, <1>4, InvariantByCallNext

\* An account that is switched on or off stays an account.
LEMMA SetActiveHolds ==
    ASSUME AccessInvariant, NEW c \in Calls, SetActive(c)
    PROVE  AccessInvariant'
<1>. USE AccessAssumption DEF Goto, rowVars, listVars
<1>0. TypeOK /\ ProtectedRowsStay /\ ListsMixOnlyInRaces /\ \A d \in Calls : Stands(d)
  BY InvariantByCall
<1>r. /\ phase \in [Calls -> {"idle", "find", "check", "default", "write", "delete",
                             "insert", "done"}]
      /\ phase[c] \notin {"idle", "done"} => request[c] \in Requests /\ Shape(request[c])
  BY <1>0, RequestShape DEF TypeOK, Stands, RequestFits
<1>q. \A d \in Calls : phase[d] = "insert" => request[d].target \in Owners
  BY <1>0, RequestShape DEF Stands, RequestFits, Shape, Owners
<1>1. TypeOK'
  BY <1>0, <1>r DEF SetActive, Writes, TypeOK, Shape
<1>2. ProtectedRowsStay'
  BY <1>0, <1>r DEF SetActive, Writes, ProtectedRowsStay
<1>3. ListsMixOnlyInRaces'
  BY <1>0, <1>r DEF SetActive, Writes, ListsMixOnlyInRaces
<1>4. ASSUME NEW d \in Calls PROVE Stands(d)'
  <2>1. RequestFits(d)'
    BY <1>0, <1>r DEF SetActive, Writes, Stands, RequestFits, AgainstSelf, Shape
  <2>2. (phase[d] \notin {"idle", "find", "done"} /\ ~ renamed => Spares(d))'
    BY <1>0, <1>r DEF SetActive, Writes, Stands, Spares
  <2>3. (phase[d] \in {"check", "delete"} /\ request[d].op = "assignRoles" =>
             account[request[d].target] # "unborn")'
    BY <1>0, <1>r DEF SetActive, Writes, Stands, TypeOK, Shape
  <2>4. (phase[d] = "insert" => ReplacesAlone(d))'
    BY <1>0, <1>r DEF SetActive, Writes, Stands, ReplacesAlone, TypeOK, Shape
  <2>. QED BY <2>1, <2>2, <2>3, <2>4 DEF Stands
<1>. QED BY <1>1, <1>2, <1>3, <1>4, InvariantByCallNext

\* A new account comes with its list, and no call is replacing that.
LEMMA InsertUserHolds ==
    ASSUME AccessInvariant, NEW c \in Calls, InsertUser(c)
    PROVE  AccessInvariant'
<1>. USE AccessAssumption DEF Goto, rowVars, listVars
<1>0. TypeOK /\ ProtectedRowsStay /\ ListsMixOnlyInRaces /\ \A d \in Calls : Stands(d)
  BY InvariantByCall
<1>r. /\ phase \in [Calls -> {"idle", "find", "check", "default", "write", "delete",
                             "insert", "done"}]
      /\ phase[c] \notin {"idle", "done"} => request[c] \in Requests /\ Shape(request[c])
  BY <1>0, RequestShape DEF TypeOK, Stands, RequestFits
<1>q. \A d \in Calls : phase[d] = "insert" => request[d].target \in Owners
  BY <1>0, RequestShape DEF Stands, RequestFits, Shape, Owners
<1>1. TypeOK'
  BY <1>0, <1>r DEF InsertUser, Writes, TypeOK, Shape
<1>2. ProtectedRowsStay'
  <2>1. links'[AdminRole] = links[AdminRole]
    BY <1>0, <1>r DEF InsertUser, Writes, TypeOK, Shape, Owners
  <2>. QED BY <1>0, <2>1 DEF InsertUser, Writes, ProtectedRowsStay
<1>3. ListsMixOnlyInRaces'
  BY <1>0, <1>r DEF InsertUser, Writes, ListsMixOnlyInRaces, TypeOK
<1>4. ASSUME NEW d \in Calls PROVE Stands(d)'
  <2>1. RequestFits(d)'
    BY <1>0, <1>r DEF InsertUser, Writes, Stands, RequestFits, AgainstSelf, Shape
  <2>2. (phase[d] \notin {"idle", "find", "done"} /\ ~ renamed => Spares(d))'
    BY <1>0, <1>r DEF InsertUser, Writes, Stands, Spares
  <2>3. (phase[d] \in {"check", "delete"} /\ request[d].op = "assignRoles" =>
             account[request[d].target] # "unborn")'
    BY <1>0, <1>r DEF InsertUser, Writes, Stands
  <2>4. (phase[d] = "insert" => ReplacesAlone(d))'
    <3>1. CASE request[d].target = request[c].target
      BY <1>0, <1>r, <3>1 DEF InsertUser, Writes, Stands, ReplacesAlone, Shape
    <3>2. CASE request[d].target # request[c].target
      BY <1>0, <1>r, <1>q, <3>2 DEF InsertUser, Writes, Stands, ReplacesAlone, TypeOK
    <3>. QED BY <3>1, <3>2
  <2>. QED BY <2>1, <2>2, <2>3, <2>4 DEF Stands
<1>. QED BY <1>1, <1>2, <1>3, <1>4, InvariantByCallNext

\* A base role that gets another name counts as renamed.
LEMMA WriteRoleHolds ==
    ASSUME AccessInvariant, NEW c \in Calls, WriteRole(c)
    PROVE  AccessInvariant'
<1>. USE AccessAssumption DEF Goto, rowVars, listVars
<1>0. TypeOK /\ ProtectedRowsStay /\ ListsMixOnlyInRaces /\ \A d \in Calls : Stands(d)
  BY InvariantByCall
<1>r. /\ phase \in [Calls -> {"idle", "find", "check", "default", "write", "delete",
                             "insert", "done"}]
      /\ phase[c] \notin {"idle", "done"} => request[c] \in Requests /\ Shape(request[c])
  BY <1>0, RequestShape DEF TypeOK, Stands, RequestFits
<1>q. \A d \in Calls : phase[d] = "insert" => request[d].target \in Owners
  BY <1>0, RequestShape DEF Stands, RequestFits, Shape, Owners
<1>1. TypeOK'
  BY <1>0, <1>r DEF WriteRole, Writes, TypeOK, Shape
<1>2. ProtectedRowsStay'
  <2>1. permKey' = permKey /\ links' = links BY DEF WriteRole
  <2>2. ASSUME ~ renamed' PROVE ~ renamed /\ (roleName[request[c].target] \in BaseNames =>
                                               request[c].value = roleName[request[c].target])
    BY <2>2, <1>0 DEF WriteRole, Writes, TypeOK
  <2>3. ASSUME ~ renamed', NEW r \in {AdminRole, UserRole} PROVE roleName'[r] = roleName[r]
    <3>1. CASE request[c].target = r
      BY <1>0, <2>2, <2>3, <3>1 DEF WriteRole, Writes, TypeOK, ProtectedRowsStay, BaseNames
    <3>2. CASE request[c].target # r
      BY <1>0, <3>2 DEF WriteRole, Writes, TypeOK
    <3>. QED BY <3>1, <3>2
  <2>. QED BY <1>0, <2>1, <2>2, <2>3 DEF ProtectedRowsStay
<1>3. ListsMixOnlyInRaces'
  BY <1>0, <1>r DEF WriteRole, Writes, ListsMixOnlyInRaces
<1>4. ASSUME NEW d \in Calls PROVE Stands(d)'
  <2>1. RequestFits(d)'
    BY <1>0, <1>r DEF WriteRole, Writes, Stands, RequestFits, AgainstSelf, Shape
  <2>2. (phase[d] \notin {"idle", "find", "done"} /\ ~ renamed => Spares(d))'
    BY <1>0, <1>r DEF WriteRole, Writes, Stands, Spares
  <2>3. (phase[d] \in {"check", "delete"} /\ request[d].op = "assignRoles" =>
             account[request[d].target] # "unborn")'
    BY <1>0, <1>r DEF WriteRole, Writes, Stands
  <2>4. (phase[d] = "insert" => ReplacesAlone(d))'
    BY <1>0, <1>r DEF WriteRole, Writes, Stands, ReplacesAlone
  <2>. QED BY <2>1, <2>2, <2>3, <2>4 DEF Stands
<1>. QED BY <1>1, <1>2, <1>3, <1>4, InvariantByCallNext

\* So does the permission *.
LEMMA WritePermissionHolds ==
    ASSUME AccessInvariant, NEW c \in Calls, WritePermission(c)
    PROVE  AccessInvariant'
<1>. USE AccessAssumption DEF Goto, rowVars, listVars
<1>0. TypeOK /\ ProtectedRowsStay /\ ListsMixOnlyInRaces /\ \A d \in Calls : Stands(d)
  BY InvariantByCall
<1>r. /\ phase \in [Calls -> {"idle", "find", "check", "default", "write", "delete",
                             "insert", "done"}]
      /\ phase[c] \notin {"idle", "done"} => request[c] \in Requests /\ Shape(request[c])
  BY <1>0, RequestShape DEF TypeOK, Stands, RequestFits
<1>q. \A d \in Calls : phase[d] = "insert" => request[d].target \in Owners
  BY <1>0, RequestShape DEF Stands, RequestFits, Shape, Owners
<1>1. TypeOK'
  BY <1>0, <1>r DEF WritePermission, Writes, TypeOK, Shape
<1>2. ProtectedRowsStay'
  BY <1>0, <1>r DEF WritePermission, Writes, ProtectedRowsStay, TypeOK, Shape
<1>3. ListsMixOnlyInRaces'
  BY <1>0, <1>r DEF WritePermission, Writes, ListsMixOnlyInRaces
<1>4. ASSUME NEW d \in Calls PROVE Stands(d)'
  <2>1. RequestFits(d)'
    BY <1>0, <1>r DEF WritePermission, Writes, Stands, RequestFits, AgainstSelf, Shape
  <2>2. (phase[d] \notin {"idle", "find", "done"} /\ ~ renamed => Spares(d))'
    BY <1>0, <1>r DEF WritePermission, Writes, Stands, Spares
  <2>3. (phase[d] \in {"check", "delete"} /\ request[d].op = "assignRoles" =>
             account[request[d].target] # "unborn")'
    BY <1>0, <1>r DEF WritePermission, Writes, Stands
  <2>4. (phase[d] = "insert" => ReplacesAlone(d))'
    BY <1>0, <1>r DEF WritePermission, Writes, Stands, ReplacesAlone
  <2>. QED BY <2>1, <2>2, <2>3, <2>4 DEF Stands
<1>. QED BY <1>1, <1>2, <1>3, <1>4, InvariantByCallNext

\* A role that is deleted leaves every list, and is no base role.
LEMMA DeleteRoleHolds ==
    ASSUME AccessInvariant, NEW c \in Calls, DeleteRole(c)
    PROVE  AccessInvariant'
<1>. USE AccessAssumption DEF Goto, rowVars, listVars
<1>0. TypeOK /\ ProtectedRowsStay /\ ListsMixOnlyInRaces /\ \A d \in Calls : Stands(d)
  BY InvariantByCall
<1>r. /\ phase \in [Calls -> {"idle", "find", "check", "default", "write", "delete",
                             "insert", "done"}]
      /\ phase[c] \notin {"idle", "done"} => request[c] \in Requests /\ Shape(request[c])
  BY <1>0, RequestShape DEF TypeOK, Stands, RequestFits
<1>q. \A d \in Calls : phase[d] = "insert" => request[d].target \in Owners
  BY <1>0, RequestShape DEF Stands, RequestFits, Shape, Owners
<1>w. /\ request[c].target \in Roles
      /\ links' = Without(request[c].target, links)
      /\ lastList' = Without(request[c].target, lastList)
  BY <1>r DEF DeleteRole, Writes, Cascade, Shape
<1>1. TypeOK'
  <2>1. links' \in [Owners -> SUBSET (Roles \cup Permissions)] BY <1>0, <1>w DEF Without, TypeOK
  <2>2. lastList' \in [Owners -> SUBSET (Roles \cup Permissions)] BY <1>0, <1>w DEF Without, TypeOK
  <2>. QED BY <1>0, <1>r, <2>1, <2>2 DEF DeleteRole, Writes, TypeOK, Missing
<1>2. ProtectedRowsStay'
  <2>1. ASSUME ~ renamed
        PROVE  request[c].target # AdminRole /\ request[c].target # UserRole
               /\ request[c].target # Wildcard
    BY <1>0, <1>r, <1>w, <2>1 DEF DeleteRole, Writes, Stands, Spares
  <2>2. ASSUME ~ renamed PROVE Wildcard \in links'[AdminRole]
    BY <1>0, <1>w, <2>1, <2>2 DEF Without, ProtectedRowsStay, Owners
  <2>. QED BY <1>0, <1>w, <2>1, <2>2 DEF DeleteRole, Writes, ProtectedRowsStay, TypeOK
<1>3. ListsMixOnlyInRaces'
  <2>1. mixed' = mixed BY DEF DeleteRole
  <2>. QED BY <1>0, <1>w, <2>1 DEF Without, ListsMixOnlyInRaces
<1>4. ASSUME NEW d \in Calls PROVE Stands(d)'
  <2>1. RequestFits(d)'
    BY <1>0, <1>r DEF DeleteRole, Writes, Stands, RequestFits, AgainstSelf, Shape
  <2>2. (phase[d] \notin {"idle", "find", "done"} /\ ~ renamed => Spares(d))'
    BY <1>0, <1>r DEF DeleteRole, Writes, Stands, Spares
  <2>3. (phase[d] \in {"check", "delete"} /\ request[d].op = "assignRoles" =>
             account[request[d].target] # "unborn")'
    BY <1>0, <1>r DEF DeleteRole, Writes, Stands
  <2>4. (phase[d] = "insert" => ReplacesAlone(d))'
    BY <1>0, <1>r, <1>q, <1>w DEF DeleteRole, Writes, Without, Stands, ReplacesAlone
  <2>. QED BY <2>1, <2>2, <2>3, <2>4 DEF Stands
<1>. QED BY <1>1, <1>2, <1>3, <1>4, InvariantByCallNext

\* A permission that is deleted leaves every list, and is not *.
LEMMA DeletePermissionHolds ==
    ASSUME AccessInvariant, NEW c \in Calls, DeletePermission(c)
    PROVE  AccessInvariant'
<1>. USE AccessAssumption DEF Goto, rowVars, listVars
<1>0. TypeOK /\ ProtectedRowsStay /\ ListsMixOnlyInRaces /\ \A d \in Calls : Stands(d)
  BY InvariantByCall
<1>r. /\ phase \in [Calls -> {"idle", "find", "check", "default", "write", "delete",
                             "insert", "done"}]
      /\ phase[c] \notin {"idle", "done"} => request[c] \in Requests /\ Shape(request[c])
  BY <1>0, RequestShape DEF TypeOK, Stands, RequestFits
<1>q. \A d \in Calls : phase[d] = "insert" => request[d].target \in Owners
  BY <1>0, RequestShape DEF Stands, RequestFits, Shape, Owners
<1>w. /\ request[c].target \in Permissions
      /\ links' = Without(request[c].target, links)
      /\ lastList' = Without(request[c].target, lastList)
  BY <1>r DEF DeletePermission, Writes, Cascade, Shape
<1>1. TypeOK'
  <2>1. links' \in [Owners -> SUBSET (Roles \cup Permissions)] BY <1>0, <1>w DEF Without, TypeOK
  <2>2. lastList' \in [Owners -> SUBSET (Roles \cup Permissions)] BY <1>0, <1>w DEF Without, TypeOK
  <2>. QED BY <1>0, <1>r, <2>1, <2>2 DEF DeletePermission, Writes, TypeOK, Missing
<1>2. ProtectedRowsStay'
  <2>1. ASSUME ~ renamed
        PROVE  request[c].target # AdminRole /\ request[c].target # UserRole
               /\ request[c].target # Wildcard
    BY <1>0, <1>r, <1>w, <2>1 DEF DeletePermission, Writes, Stands, Spares
  <2>2. ASSUME ~ renamed PROVE Wildcard \in links'[AdminRole]
    BY <1>0, <1>w, <2>1, <2>2 DEF Without, ProtectedRowsStay, Owners
  <2>. QED BY <1>0, <1>w, <2>1, <2>2 DEF DeletePermission, Writes, ProtectedRowsStay, TypeOK
<1>3. ListsMixOnlyInRaces'
  <2>1. mixed' = mixed BY DEF DeletePermission
  <2>. QED BY <1>0, <1>w, <2>1 DEF Without, ListsMixOnlyInRaces
<1>4. ASSUME NEW d \in Calls PROVE Stands(d)'
  <2>1. RequestFits(d)'
    BY <1>0, <1>r DEF DeletePermission, Writes, Stands, RequestFits, AgainstSelf, Shape
  <2>2. (phase[d] \notin {"idle", "find", "done"} /\ ~ renamed => Spares(d))'
    BY <1>0, <1>r DEF DeletePermission, Writes, Stands, Spares
  <2>3. (phase[d] \in {"check", "delete"} /\ request[d].op = "assignRoles" =>
             account[request[d].target] # "unborn")'
    BY <1>0, <1>r DEF DeletePermission, Writes, Stands
  <2>4. (phase[d] = "insert" => ReplacesAlone(d))'
    BY <1>0, <1>r, <1>q, <1>w DEF DeletePermission, Writes, Without, Stands, ReplacesAlone
  <2>. QED BY <2>1, <2>2, <2>3, <2>4 DEF Stands
<1>. QED BY <1>1, <1>2, <1>3, <1>4, InvariantByCallNext

\* A transaction finds all the rows of its owner, or a race is on.
LEMMA FindRowsHolds ==
    ASSUME AccessInvariant, NEW c \in Calls, FindRows(c)
    PROVE  AccessInvariant'
<1>. USE AccessAssumption DEF Goto, rowVars, listVars
<1>0. TypeOK /\ ProtectedRowsStay /\ ListsMixOnlyInRaces /\ \A d \in Calls : Stands(d)
  BY InvariantByCall
<1>r. /\ phase \in [Calls -> {"idle", "find", "check", "default", "write", "delete",
                             "insert", "done"}]
      /\ phase[c] \notin {"idle", "done"} => request[c] \in Requests /\ Shape(request[c])
  BY <1>0, RequestShape DEF TypeOK, Stands, RequestFits
<1>q. \A d \in Calls : phase[d] = "insert" => request[d].target \in Owners
  BY <1>0, RequestShape DEF Stands, RequestFits, Shape, Owners
<1>1. TypeOK'
  <2>1. request[c].target \in Owners
    BY <1>0, <1>r DEF FindRows, Stands, RequestFits, Shape, Owners
  <2>2. /\ found' \in [Calls -> SUBSET (Roles \cup Permissions)] /\ mixed' \subseteq Owners
    BY <1>0, <2>1 DEF FindRows, TypeOK
  <2>. QED BY <1>0, <1>r, <2>2 DEF FindRows, TypeOK
<1>2. ProtectedRowsStay'
  BY <1>0, <1>r DEF FindRows, ProtectedRowsStay
<1>3. ListsMixOnlyInRaces'
  BY <1>0, <1>r DEF FindRows, ListsMixOnlyInRaces
<1>4. ASSUME NEW d \in Calls PROVE Stands(d)'
  <2>1. RequestFits(d)'
    BY <1>0, <1>r DEF FindRows, Stands, RequestFits, AgainstSelf, Shape
  <2>2. (phase[d] \notin {"idle", "find", "done"} /\ ~ renamed => Spares(d))'
    BY <1>0, <1>r DEF FindRows, Stands, Spares
  <2>3. (phase[d] \in {"check", "delete"} /\ request[d].op = "assignRoles" =>
             account[request[d].target] # "unborn")'
    BY <1>0, <1>r DEF FindRows, Stands
  <2>4. (phase[d] = "insert" => ReplacesAlone(d))'
    <3>1. CASE d = c
      BY <1>0, <1>r, <3>1 DEF FindRows, Stands, ReplacesAlone, TypeOK, RequestFits, Shape
    <3>2. CASE d # c
      BY <1>0, <1>r, <3>2 DEF FindRows, Stands, ReplacesAlone, TypeOK
    <3>. QED BY <3>1, <3>2
  <2>. QED BY <2>1, <2>2, <2>3, <2>4 DEF Stands
<1>. QED BY <1>1, <1>2, <1>3, <1>4, InvariantByCallNext

\* A transaction that was alone leaves its own list.
LEMMA InsertRowsHolds ==
    ASSUME AccessInvariant, NEW c \in Calls, InsertRows(c)
    PROVE  AccessInvariant'
<1>. USE AccessAssumption DEF Goto, rowVars, listVars
<1>0. TypeOK /\ ProtectedRowsStay /\ ListsMixOnlyInRaces /\ \A d \in Calls : Stands(d)
  BY InvariantByCall
<1>r. /\ phase \in [Calls -> {"idle", "find", "check", "default", "write", "delete",
                             "insert", "done"}]
      /\ phase[c] \notin {"idle", "done"} => request[c] \in Requests /\ Shape(request[c])
  BY <1>0, RequestShape DEF TypeOK, Stands, RequestFits
<1>q. \A d \in Calls : phase[d] = "insert" => request[d].target \in Owners
  BY <1>0, RequestShape DEF Stands, RequestFits, Shape, Owners
<1>1. TypeOK'
  <2>1. request[c].target \in Owners /\ request[c].list \subseteq Roles \cup Permissions
    BY <1>0, <1>r DEF InsertRows, Stands, RequestFits, Shape, Owners
  <2>2. links' \in [Owners -> SUBSET (Roles \cup Permissions)]
    BY <1>0, <2>1 DEF InsertRows, TypeOK
  <2>3. lastList' \in [Owners -> SUBSET (Roles \cup Permissions)]
    BY <1>0, <2>1 DEF InsertRows, TypeOK
  <2>4. found' \in [Calls -> SUBSET (Roles \cup Permissions)]
    BY <1>0 DEF InsertRows, TypeOK
  <2>. QED BY <1>0, <1>r, <2>2, <2>3, <2>4 DEF InsertRows, TypeOK
<1>2. ProtectedRowsStay'
  <2>1. ~ renamed => request[c].target # AdminRole
    BY <1>0, <1>r DEF InsertRows, Stands, RequestFits, Spares, Shape
  <2>2. ~ renamed => links'[AdminRole] = links[AdminRole]
    BY <1>0, <2>1 DEF InsertRows, TypeOK, Owners
  <2>. QED BY <1>0, <2>2 DEF InsertRows, ProtectedRowsStay
<1>3. ListsMixOnlyInRaces'
  <2>1. ASSUME NEW o \in Owners \ mixed PROVE links'[o] = lastList'[o]
    <3>1. CASE o = request[c].target
      <4>1. links[o] \subseteq found[c]
        BY <1>0, <2>1, <3>1 DEF InsertRows, Stands, ReplacesAlone
      <4>2. links'[o] = (links[o] \ found[c]) \cup request[c].list
        BY <1>0, <2>1, <3>1 DEF InsertRows, TypeOK
      <4>3. lastList'[o] = request[c].list
        BY <1>0, <2>1, <3>1 DEF InsertRows, TypeOK
      <4>. QED BY <4>1, <4>2, <4>3
    <3>2. CASE o # request[c].target
      BY <1>0, <2>1, <3>2 DEF InsertRows, TypeOK, ListsMixOnlyInRaces
    <3>. QED BY <3>1, <3>2
  <2>. QED BY <2>1 DEF InsertRows, ListsMixOnlyInRaces
<1>4. ASSUME NEW d \in Calls PROVE Stands(d)'
  <2>1. RequestFits(d)'
    BY <1>0, <1>r DEF InsertRows, Stands, RequestFits, AgainstSelf, Shape
  <2>2. (phase[d] \notin {"idle", "find", "done"} /\ ~ renamed => Spares(d))'
    BY <1>0, <1>r DEF InsertRows, Stands, Spares
  <2>3. (phase[d] \in {"check", "delete"} /\ request[d].op = "assignRoles" =>
             account[request[d].target] # "unborn")'
    BY <1>0, <1>r DEF InsertRows, Stands
  <2>4. (phase[d] = "insert" => ReplacesAlone(d))'
    BY <1>0, <1>r DEF InsertRows, Stands, ReplacesAlone
  <2>. QED BY <2>1, <2>2, <2>3, <2>4 DEF Stands
<1>. QED BY <1>1, <1>2, <1>3, <1>4, InvariantByCallNext

\* Every step keeps the invariant, whatever is done to accounts and roles.
LEMMA NextHolds == ASSUME AccessInvariant, [Next]_vars PROVE AccessInvariant'
<1>1. CASE UNCHANGED vars
  <2>. USE <1>1 DEF vars, rowVars, listVars, callVars
  <2>1. TypeOK' BY DEF AccessInvariant, TypeOK
  <2>2. ProtectedRowsStay' BY DEF AccessInvariant, ProtectedRowsStay
  <2>3. ListsMixOnlyInRaces' BY DEF AccessInvariant, ListsMixOnlyInRaces
  <2>4. ASSUME NEW c \in Calls PROVE Stands(c)'
    BY InvariantByCall DEF Stands, RequestFits, AgainstSelf, Spares, ReplacesAlone
  <2>. QED BY <2>1, <2>2, <2>3, <2>4, InvariantByCallNext
<1>2. ASSUME NEW c \in Calls, NEW u \in Users, NEW q \in UserRequests \cup AccessRequests,
             Arrive(c, u, q)
      PROVE  AccessInvariant'
  BY <1>2, ArriveHolds
<1>3. ASSUME NEW c \in Calls, NEW q \in Registrations, ArriveToRegister(c, q)
      PROVE  AccessInvariant'
  BY <1>3, RegisterHolds
<1>4. ASSUME NEW c \in Calls, Step(c) PROVE AccessInvariant'
  BY <1>4, FindHolds, CheckListHolds, FindDefaultHolds, EndsHolds, SetActiveHolds,
     InsertUserHolds, WriteRoleHolds, WritePermissionHolds, DeleteRoleHolds,
     DeletePermissionHolds, FindRowsHolds, InsertRowsHolds DEF Step
<1>. QED BY <1>1, <1>2, <1>3, <1>4 DEF Next

\* The inductive invariant of UsersService and AccessControlService.
THEOREM AccessSafe == Spec => []AccessInvariant
BY InitHolds, NextHolds, PTL DEF Spec

\* Only renaming opens the way to the base roles and to the permission '*'.
THEOREM ProtectedRowsSafe == Spec => []ProtectedRowsStay
<1>1. AccessInvariant => ProtectedRowsStay BY DEF AccessInvariant
<1>. QED BY <1>1, AccessSafe, PTL

\* assignRoles and assignPermissions leave the list they were given, unless
\* two of them replace one list at the same time.
THEOREM ListsSafe == Spec => []ListsMixOnlyInRaces
<1>1. AccessInvariant => ListsMixOnlyInRaces BY DEF AccessInvariant
<1>. QED BY <1>1, AccessSafe, PTL

\* An administrator stays one in every step of its own calls.
LEMMA OwnCallsSpare ==
    ASSUME AccessInvariant, NEW c \in Calls, Step(c), ~ renamed',
           actor[c] \in Administrators
    PROVE  actor[c] \in Administrators'
<1>. USE AccessAssumption DEF Administrators, rowVars, listVars
<1>0. /\ TypeOK /\ Stands(c)
      /\ phase[c] \notin {"idle", "done"} => Shape(request[c])
  BY InvariantByCall, RequestShape DEF Stands, RequestFits
<1>1. CASE Find(c) \/ CheckList(c) \/ FindDefaultRole(c) \/ Ends(c) \/ FindRows(c)
  BY <1>1 DEF Find, CheckList, FindDefaultRole, Ends, FindRows
<1>2. CASE SetActive(c)
  BY <1>0, <1>2 DEF SetActive, Writes, Goto, TypeOK, Shape, Stands, RequestFits, AgainstSelf
<1>3. CASE InsertUser(c)
  BY <1>0, <1>3 DEF InsertUser, Writes, Goto, TypeOK, Shape, Owners
<1>4. CASE WriteRole(c) \/ WritePermission(c)
  BY <1>4 DEF WriteRole, Writes, WritePermission
<1>5. CASE DeleteRole(c)
  <2>1. request[c].target # AdminRole /\ request[c].target \in Roles
    BY <1>0, <1>5 DEF DeleteRole, Writes, Goto, Stands, Spares, Shape
  <2>. QED BY <1>0, <1>5, <2>1 DEF DeleteRole, Writes, Cascade, Without, Owners, TypeOK
<1>6. CASE DeletePermission(c)
  <2>1. request[c].target \in Permissions
    BY <1>0, <1>6 DEF DeletePermission, Writes, Goto, Shape
  <2>. QED BY <1>0, <1>6, <2>1 DEF DeletePermission, Writes, Cascade, Without, Owners, TypeOK
<1>7. CASE InsertRows(c)
  <2>1. request[c].target # actor[c]
    BY <1>0, <1>7 DEF InsertRows, Goto, Stands, RequestFits, AgainstSelf, Shape
  <2>. QED BY <1>0, <1>7, <2>1 DEF InsertRows, TypeOK, Owners
<1>. QED BY <1>1, <1>2, <1>3, <1>4, <1>5, <1>6, <1>7 DEF Step

\* The last administrator falls to no call of an administrator.
THEOREM LastAdministratorSafe == Spec => LastAdministratorFallsToOthers
<1>1. ASSUME AccessInvariant, [Next]_vars, Administrators # {}, Administrators' = {},
             ~ renamed'
      PROVE  \E c \in Calls : phase'[c] # phase[c] /\ actor[c] \notin Administrators
  <2>1. CASE UNCHANGED vars
    BY <1>1, <2>1 DEF vars, rowVars, listVars, callVars, Administrators
  <2>2. ASSUME NEW c \in Calls, NEW u \in Users, NEW q \in UserRequests \cup AccessRequests,
               Arrive(c, u, q)
        PROVE  FALSE
    BY <1>1, <2>2 DEF Arrive, rowVars, listVars, Administrators
  <2>3. ASSUME NEW c \in Calls, NEW q \in Registrations, ArriveToRegister(c, q)
        PROVE  FALSE
    BY <1>1, <2>3 DEF ArriveToRegister, rowVars, listVars, Administrators
  <2>4. ASSUME NEW c \in Calls, Step(c)
        PROVE  phase'[c] # phase[c] /\ actor[c] \notin Administrators
    <3>1. phase \in [Calls -> {"idle", "find", "check", "default", "write", "delete",
                             "insert", "done"}]
      BY <1>1 DEF AccessInvariant, TypeOK
    <3>2. phase'[c] # phase[c]
      BY <2>4, <3>1 DEF Step, Find, CheckList, FindDefaultRole, Ends, SetActive, InsertUser,
         WriteRole, WritePermission, DeleteRole, DeletePermission, FindRows, InsertRows,
         Writes, Goto
    <3>3. actor[c] \notin Administrators BY <1>1, <2>4, OwnCallsSpare
    <3>. QED BY <3>2, <3>3
  <2>. QED BY <1>1, <2>1, <2>2, <2>3, <2>4 DEF Next
<1>2. AccessInvariant /\ [Next]_vars =>
         [(Administrators # {} /\ Administrators' = {} /\ ~ renamed') =>
             \E c \in Calls : phase'[c] # phase[c] /\ actor[c] \notin Administrators]_vars
  BY <1>1
<1>. QED BY <1>2, AccessSafe, PTL DEF Spec, LastAdministratorFallsToOthers
=============================================================================
