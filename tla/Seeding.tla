------------------------------ MODULE Seeding ------------------------------
(***************************************************************************)
(* The seed command (prisma/seed.ts): a fixed list of statements that runs *)
(* without a transaction, beside another run of itself, the administrators *)
(* of the application and the readers of the public catalogues.  It may    *)
(* stop at any statement, and is run again.                                *)
(*                                                                         *)
(* Its statements are data here, for each one is an upsert.  Rows that it  *)
(* treats alike are represented by one: "read" is a permission other than  *)
(* '*', "users" an option of the administration menu, "option" and "stage" *)
(* the two catalogues of the form, "NEW" the catalogues of the CRM, whose  *)
(* rows no other refers to.  The rights, the menus and the catalogues have *)
(* no row in common but the permissions that the menus name, so each       *)
(* behaviour shows one of the three.  The specification is SeedSpec, for   *)
(* its proofs stand in one module with those of MenuHierarchy.             *)
(***************************************************************************)
EXTENDS Naturals, Sequences, FiniteSets

CONSTANTS Seeds,     \* runs of the command
          Readers,   \* requests for the catalogues
          Locales,   \* what they ask for; "any" is no language
          Old,       \* the writer of the rows from before
          NoId,
          MaxEdits   \* bound of what the administrators do

ASSUME SeedingAssumption ==
    /\ Locales \subseteq {"any", "es", "en", "pt"}
    /\ Old \notin Seeds /\ MaxEdits \in Nat

Sections == {"rights", "menus", "catalogs"}
Languages == {"es", "en", "pt"}
Items == {"option", "stage"}
MenuKeys == {"administration", "crm", "crm-leads", "users"}
Permissions == {"*", "read"}
Roles == {"admin"}
\* Names that administrators give and the seed does not know.
Aliases == {"another role", "another permission", "another option"}
Keys == Languages \cup Items \cup MenuKeys \cup Permissions \cup Roles
          \cup {"NEW", "account"}

\* A run stores at most one row of a key, so the two together name the row.
Ids == (Keys \X Seeds) \cup ({"pt", "option"} \X {Old})
MenuIds == MenuKeys \X Seeds
LanguageIds == {i \in Ids : i[1] \in Languages}

\* What an administrator may call a row, if the name is free: what the seed
\* calls rows of its kind too, but for '*', which is not of the form asked for.
NamesFor(i) == CASE i[1] \in MenuKeys -> MenuKeys \cup {"another option"}
                  [] i[1] \in Roles -> Roles \cup {"another role"}
                  [] i[1] \in Permissions -> {"read", "another permission"}
                  [] OTHER -> {}

ASSUME NoIdAssumption == NoId \notin Ids

VARIABLES
    section,
    credentials, \* ADMIN_EMAIL and ADMIN_PASSWORD are set
    \* The tables.
    name,        \* the unique key of a row; "unborn" before, "gone" after it
    active, isDefault, parentId, permissionId,
    links,       \* role_permissions, user_roles and the translations
    \* The runs.
    state, next, \* the statement it is about to make
    got,         \* the ids that the upserts have returned
    \* The readers.
    stage, locale, default, requested,
    item,        \* one of those in the answer, that this reader follows
    named,       \* the language that names it
    \* The administrators.
    pending,     \* their request for an option that has read but not written
    \* History.
    outdated,    \* a run has moved an option while they looked at the ancestors
    edits,       \* of the administrators
    disturbed,   \* runs going on during which an administrator wrote something,
                 \* and those that began beside one of them
    bereft,      \* runs going on during which an administrator deleted something
    seeded,      \* a run has come to its end
    informed     \* readers that came after that

tableVars == <<name, active, isDefault, parentId, permissionId, links>>
runVars == <<state, next, got>>
readerVars == <<stage, locale, default, requested, item, named>>
historyVars == <<edits, disturbed, bereft, seeded, informed>>
settings == <<section, credentials>>
seedVars == <<settings, tableVars, runVars, readerVars, pending, outdated, historyVars>>

-----------------------------------------------------------------------------
(* The statements, in the order of main().  The role 'user', to which      *)
(* nothing refers, is left out.                                            *)

\* An upsert by key.  What a statement does not mention stays as it is, or is
\* empty in a new row; the row is active afterwards, accounts excepted.
Upsert(k, p, q, d) == [do |-> "row", key |-> k, parentId |-> p, permissionId |-> q,
                       default |-> d, wakes |-> k # "account"]
Put(k) == Upsert(k, "kept", "kept", "kept")

\* An upsert of a row that joins the two whose ids the run has been given.
Join(a, b) == [do |-> "join", a |-> a, b |-> b]

PermissionStatements(k) == <<Put(k)>>
RoleStatements == <<Put("admin")>>
WildcardStatements == <<Join("admin", "*")>>

\* Mutant: the upsert of crm leaves its parent alone.
MenuStatementsKept ==
    <<Put("administration"), Upsert("crm", "kept", "read", "kept"),
      Upsert("crm-leads", "crm", "read", "kept")>>

\* crm is put at the root, administration stays where it is.
MenuStatements ==
    <<Put("administration"), Upsert("crm", "root", "read", "kept"),
      Upsert("crm-leads", "crm", "read", "kept")>>

OptionStatements == <<Upsert("users", "administration", "read", "kept")>>

\* Mutant: the other languages are cleared before Spanish is set.
LanguageStatementsLate ==
    <<[do |-> "clear"], Upsert("es", "kept", "kept", "yes"), Upsert("en", "kept", "kept", "no")>>

LanguageStatements ==
    <<Upsert("es", "kept", "kept", "yes"), Upsert("en", "kept", "kept", "no"), [do |-> "clear"]>>

DevelopmentOptionStatements == <<Put("option"), Join("option", "es"), Join("option", "en")>>
ProjectStageStatements == <<Put("stage"), Join("stage", "es"), Join("stage", "en")>>
CrmStatements == <<Put("NEW")>>

\* Without credentials the seed ends before the account.
AccountStatements ==
    IF credentials THEN <<Put("account"), Join("account", "admin")>> ELSE <<>>

\* Mutant: the options come before the menu they belong to.
MenusScriptEarly == PermissionStatements("read") \o OptionStatements \o MenuStatements

MenusScript == PermissionStatements("read") \o MenuStatements \o OptionStatements

RightsScript ==
    PermissionStatements("*") \o RoleStatements \o WildcardStatements \o AccountStatements

\* Mutant: without credentials the seed ends before the catalogues.
CatalogsScriptWithAccount ==
    IF ~ credentials THEN <<>>
    ELSE LanguageStatements \o DevelopmentOptionStatements \o ProjectStageStatements

\* They come whether there are credentials or not.
CatalogsScript ==
    LanguageStatements \o DevelopmentOptionStatements \o ProjectStageStatements \o CrmStatements

Script == CASE section = "rights" -> RightsScript
            [] section = "menus" -> MenusScript
            [] section = "catalogs" -> CatalogsScript

-----------------------------------------------------------------------------
(* Rows.                                                                   *)

There(i) == i # NoId /\ name[i] \notin {"unborn", "gone"}
Named(k) == {i \in Ids : name[i] = k}
Defaults == {i \in LanguageIds : There(i) /\ isDefault[i] /\ active[i]}

Options == {m \in MenuIds : There(m)}

\* Rows that are deleted take with them the links that refer to them; an option
\* no longer needs a permission that is deleted.
Delete(rows) ==
    /\ name' = [i \in Ids |-> IF i \in rows THEN "gone" ELSE name[i]]
    /\ links' = {l \in links : l[1] \notin rows /\ l[2] \notin rows}
    /\ parentId' = [m \in MenuIds |-> IF m \in rows THEN NoId ELSE parentId[m]]
    /\ permissionId' = [m \in MenuIds |-> IF m \in rows \/ permissionId[m] \in rows
                                         THEN NoId ELSE permissionId[m]]

\* An option and all that hangs from it, which a deletion takes along.
Below(i) ==
    {x \in Options : \A S \in SUBSET Options :
        (i \in S /\ \A m \in Options : parentId[m] \in S => m \in S) => x \in S}

NoRequest == [do |-> "none", option |-> NoId, under |-> NoId, at |-> NoId]

\* The tables begin empty, but the catalogues may have a language that is not
\* the seed's, perhaps the default, and an option with a name in it.
SeedInit ==
    /\ section \in Sections
    /\ credentials \in (IF section = "rights" THEN BOOLEAN ELSE {FALSE})
    /\ \E had \in SUBSET {"pt"}, first \in BOOLEAN :
          /\ section # "catalogs" => had = {}
          /\ had = {} => ~ first
          /\ LET old == had \X {Old}
                 option == <<"option", Old>>
             IN  /\ name = [i \in Ids |-> IF i \in old \/ (i = option /\ first) THEN i[1]
                                          ELSE "unborn"]
                 /\ active = [i \in Ids |-> TRUE]
                 /\ \E d \in old \cup {NoId} : isDefault = [i \in LanguageIds |-> i = d]
                 /\ links = IF first THEN {<<option, l>> : l \in old} ELSE {}
    /\ parentId = [m \in MenuIds |-> NoId]
    /\ permissionId = [m \in MenuIds |-> NoId]
    /\ state = [s \in Seeds |-> "idle"]
    /\ next = [s \in Seeds |-> 1]
    /\ got = [s \in Seeds |-> [k \in Keys |-> NoId]]
    /\ stage = [r \in Readers |-> "idle"]
    /\ locale = [r \in Readers |-> "any"]
    /\ default = [r \in Readers |-> NoId]
    /\ requested = [r \in Readers |-> NoId]
    /\ item = [r \in Readers |-> NoId]
    /\ named = [r \in Readers |-> NoId]
    /\ pending = NoRequest /\ outdated = FALSE
    /\ edits = 0
    /\ disturbed = {} /\ bereft = {}
    /\ seeded = FALSE /\ informed = {}

-----------------------------------------------------------------------------
(* A run of the seed.                                                      *)

Statement(s) == Script[next[s]]

Begin(s) ==
    /\ state[s] = "idle"
    /\ state' = [state EXCEPT ![s] = "running"]
    /\ disturbed' = IF disturbed = {} THEN {} ELSE disturbed \cup {s}
    /\ UNCHANGED <<settings, tableVars, next, got, readerVars, pending, outdated,
                   edits, bereft, seeded, informed>>

\* The statement that run s is to make is of kind d; it has made it.
Turn(s, d) ==
    /\ state[s] = "running" /\ next[s] <= Len(Script)
    /\ Statement(s).do = d
Done(s) ==
    /\ next' = [next EXCEPT ![s] = @ + 1]
    /\ UNCHANGED <<settings, state, readerVars, pending, historyVars>>

\* The id that a reference of an upsert gives: what the row has, none, or
\* what an earlier statement of this run returned.
Reference(s, r, old) == CASE r = "kept" -> old [] r = "root" -> NoId [] OTHER -> got[s][r]

\* The row that the upsert of key k finds, or the one that it adds.
RowOf(k, s) == IF Named(k) = {} THEN <<k, s>> ELSE CHOOSE i \in Named(k) : TRUE

\* The references of the statement that a foreign key looks up.
Needs(s) ==
    LET st == Statement(s)
    IN  IF st.do = "join" THEN {got[s][st.a], got[s][st.b]}
        ELSE {got[s][r] : r \in {st.parentId, st.permissionId} \ {"kept", "root"}}

\* Mutant: an upsert leaves a row as inactive as it finds it.
PutRowAsleep(s) ==
    /\ Turn(s, "row")
    /\ \A i \in Needs(s) : There(i)
    /\ LET st == Statement(s)
           i == RowOf(st.key, s)
       IN  /\ name' = [name EXCEPT ![i] = st.key]
           /\ active' = active
           /\ isDefault' = IF st.default = "kept" THEN isDefault
                           ELSE [isDefault EXCEPT ![i] = st.default = "yes"]
           /\ IF i \in MenuIds
              THEN /\ parentId' = [parentId EXCEPT ![i] = Reference(s, st.parentId, @)]
                   /\ permissionId' = [permissionId EXCEPT ![i] = Reference(s, st.permissionId, @)]
              ELSE UNCHANGED <<parentId, permissionId>>
           /\ got' = [got EXCEPT ![s][st.key] = i]
    /\ outdated' = (outdated \/ (pending.do = "move" /\ parentId' # parentId))
    /\ UNCHANGED links
    /\ Done(s)

PutRow(s) ==
    /\ Turn(s, "row")
    /\ \A i \in Needs(s) : There(i)
    /\ LET st == Statement(s)
           i == RowOf(st.key, s)
       IN  /\ name' = [name EXCEPT ![i] = st.key]
           /\ active' = [active EXCEPT ![i] = @ \/ st.wakes]
           /\ isDefault' = IF st.default = "kept" THEN isDefault
                           ELSE [isDefault EXCEPT ![i] = st.default = "yes"]
           /\ IF i \in MenuIds
              THEN /\ parentId' = [parentId EXCEPT ![i] = Reference(s, st.parentId, @)]
                   /\ permissionId' = [permissionId EXCEPT ![i] = Reference(s, st.permissionId, @)]
              ELSE UNCHANGED <<parentId, permissionId>>
           /\ got' = [got EXCEPT ![s][st.key] = i]
    /\ outdated' = (outdated \/ (pending.do = "move" /\ parentId' # parentId))
    /\ UNCHANGED links
    /\ Done(s)

JoinRows(s) ==
    /\ Turn(s, "join")
    /\ \A i \in Needs(s) : There(i)
    /\ links' = links \cup {<<got[s][Statement(s).a], got[s][Statement(s).b]>>}
    /\ UNCHANGED <<name, active, isDefault, parentId, permissionId, got, outdated>>
    /\ Done(s)

\* Spanish is the one default language.
ClearDefaults(s) ==
    /\ Turn(s, "clear")
    /\ isDefault' = [i \in LanguageIds |-> isDefault[i] /\ name[i] = "es"]
    /\ UNCHANGED <<name, active, parentId, permissionId, links, got, outdated>>
    /\ Done(s)

Stops(s, how) ==
    /\ state' = [state EXCEPT ![s] = how]
    /\ next' = [next EXCEPT ![s] = 1]
    /\ got' = [got EXCEPT ![s] = [k \in Keys |-> NoId]]
    /\ disturbed' = disturbed \ {s} /\ bereft' = bereft \ {s}
    /\ UNCHANGED <<settings, tableVars, readerVars, pending, outdated, edits, informed>>

\* A row that the statement refers to is gone: the foreign key refuses it.
Refused(s) ==
    /\ Turn(s, "row") \/ Turn(s, "join")
    /\ \E i \in Needs(s) : ~ There(i)
    /\ Stops(s, "refused")
    /\ UNCHANGED seeded

\* The password is too short, or the process dies, or a statement fails, as an
\* upsert may whose row another run inserts at the same time.
Fails(s) ==
    /\ state[s] = "running"
    /\ Stops(s, "failed")
    /\ UNCHANGED seeded

Ends(s) ==
    /\ state[s] = "running" /\ next[s] > Len(Script)
    /\ Stops(s, "done")
    /\ seeded' = TRUE

-----------------------------------------------------------------------------
(* The administrators, one request at a time: what simultaneous ones do to *)
(* one another is the subject of AccessControl and MenuHierarchy.          *)

Running == {s \in Seeds : state[s] = "running"}

\* The administrators make another request, when the one before is answered.
MayAsk == section # "catalogs" /\ edits < MaxEdits /\ pending = NoRequest
Request == MayAsk /\ edits' = edits + 1

\* They write; what disturbs the runs going on.
Write ==
    /\ disturbed' = disturbed \cup Running
    /\ UNCHANGED <<settings, isDefault, runVars, readerVars, seeded, informed>>

\* A request that is answered with one statement.
Edit ==
    /\ Request /\ Write
    /\ UNCHANGED <<pending, outdated>>

\* updateRole, updatePermission, and update of a menu option that gives a key.
Rename(i, k) ==
    /\ Edit
    /\ There(i) /\ Named(k) = {}
    /\ name' = [name EXCEPT ![i] = k]
    /\ UNCHANGED <<active, parentId, permissionId, links, bereft>>

\* deleteRole, deletePermission: those the code knows by name stay.
DeleteRight(i) ==
    /\ Edit
    /\ There(i) /\ i[1] \in Roles \cup Permissions
    /\ name[i] \notin {"admin", "user", "*"}
    /\ Delete({i})
    /\ bereft' = bereft \cup Running
    /\ UNCHANGED active

\* assignRoles, assignPermissions; the list of the role 'admin' stays.
Unassign(l) ==
    /\ Edit
    /\ l \in links
    /\ name[l[1]] # "admin"
    /\ links' = links \ {l}
    /\ UNCHANGED <<name, active, parentId, permissionId, bereft>>

\* setActive of the account or a menu option.
SwitchOff(i) ==
    /\ Edit
    /\ There(i) /\ (i \in MenuIds \/ i[1] = "account")
    /\ active' = [active EXCEPT ![i] = FALSE]
    /\ UNCHANGED <<name, parentId, permissionId, links, bereft>>

\* update: an option is put at the root.
MoveToRoot(i) ==
    /\ Edit
    /\ i \in Options
    /\ parentId' = [parentId EXCEPT ![i] = NoId]
    /\ UNCHANGED <<name, active, permissionId, links, bereft>>

\* The reads of a request, between which the runs make their statements.
Reading ==
    UNCHANGED <<settings, tableVars, runVars, readerVars, disturbed, bereft, seeded, informed>>

\* update: an option is to be put under p, which is not the option itself.
AskMove(i, p) ==
    /\ Request
    /\ i \in Options /\ p # i
    /\ pending' = [do |-> "move", option |-> i, under |-> p, at |-> p]
    /\ UNCHANGED outdated
    /\ Reading

\* The walk to the root, of which each option is one query.  None goes while
\* the request is under way.
WalkUp ==
    /\ pending.do = "move" /\ pending.at # NoId
    /\ There(pending.at) /\ parentId[pending.at] # pending.option
    /\ pending' = [pending EXCEPT !.at = parentId[@]]
    /\ UNCHANGED <<outdated, edits>>
    /\ Reading

\* The walk has come to the root.
MoveUnder ==
    /\ pending.do = "move" /\ pending.at = NoId
    /\ There(pending.option) /\ There(pending.under)
    /\ parentId' = [parentId EXCEPT ![pending.option] = pending.under]
    /\ pending' = NoRequest /\ outdated' = FALSE
    /\ UNCHANGED <<name, active, permissionId, links, edits, bereft>>
    /\ Write

\* delete: an option without children.
AskRemoval(i) ==
    /\ Request
    /\ i \in Options
    /\ \A m \in Options : parentId[m] # i
    /\ pending' = [do |-> "remove", option |-> i, under |-> NoId, at |-> NoId]
    /\ UNCHANGED outdated
    /\ Reading

\* A run may have put options under it since.
RemoveMenu ==
    /\ pending.do = "remove"
    /\ There(pending.option)
    /\ Delete(Below(pending.option))
    /\ pending' = NoRequest /\ outdated' = FALSE
    /\ bereft' = bereft \cup Running
    /\ UNCHANGED <<active, edits>>
    /\ Write

\* The walk comes by the option itself (400), or the process dies.
Withdraw ==
    /\ pending # NoRequest
    /\ pending' = NoRequest /\ outdated' = FALSE
    /\ UNCHANGED edits
    /\ Reading

AdministratorsWrite ==
    \/ /\ MayAsk
       /\ \E i \in {j \in Ids : There(j)} :
             \/ \E k \in NamesFor(i) : Rename(i, k)
             \/ DeleteRight(i) \/ SwitchOff(i) \/ MoveToRoot(i)
    \/ \E l \in links : Unassign(l)
    \/ MoveUnder \/ RemoveMenu

AdministratorsRead ==
    \/ /\ MayAsk
       /\ \E i \in Options : AskRemoval(i) \/ \E p \in Options : AskMove(i, p)
    \/ WalkUp \/ Withdraw

Administrators == AdministratorsWrite \/ AdministratorsRead

-----------------------------------------------------------------------------
(* The readers: getCatalogs, and findAll, which shows the same names to    *)
(* the administrators in the default language.                             *)

Advance(r, from, to) == stage[r] = from /\ stage' = [stage EXCEPT ![r] = to]

Ask(r, l) ==
    /\ section = "catalogs"
    /\ Advance(r, "idle", "default")
    /\ locale' = [locale EXCEPT ![r] = l]
    /\ informed' = IF seeded THEN informed \cup {r} ELSE informed
    /\ UNCHANGED <<settings, tableVars, runVars, default, requested, item, named,
                   pending, outdated, edits, disturbed, bereft, seeded>>

Reads == UNCHANGED <<settings, tableVars, runVars, locale, pending, outdated, historyVars>>

\* The default language comes first; the order among several is not modelled.
ReadDefault(r) ==
    /\ Advance(r, "default", IF locale[r] = "any" THEN "items" ELSE "requested")
    /\ \E l \in Defaults : /\ default' = [default EXCEPT ![r] = l]
                           /\ requested' = [requested EXCEPT ![r] = l]
    /\ UNCHANGED <<item, named>> /\ Reads

\* 503: there is none.
NoDefault(r) ==
    /\ Advance(r, "default", "unavailable")
    /\ Defaults = {}
    /\ UNCHANGED <<default, requested, item, named>> /\ Reads

ReadRequested(r) ==
    /\ Advance(r, "requested", "items")
    /\ \E l \in Named(locale[r]) : active[l] /\ requested' = [requested EXCEPT ![r] = l]
    /\ UNCHANGED <<default, item, named>> /\ Reads

\* 400: the language is not available.
NoLanguage(r) ==
    /\ Advance(r, "requested", "refused")
    /\ \A l \in Named(locale[r]) : ~ active[l]
    /\ UNCHANGED <<default, requested, item, named>> /\ Reads

\* The active items; their translations take another query.
ReadItem(r) ==
    /\ Advance(r, "items", "names")
    /\ \E k \in Items : \E i \in Named(k) : active[i] /\ item' = [item EXCEPT ![r] = i]
    /\ UNCHANGED <<default, requested, named>> /\ Reads

\* The translations of the item that are there in the languages asked for.
Spoken(r) == {l \in {requested[r], default[r]} : <<item[r], l>> \in links}

\* By its name in the language requested, or in the default language, or by
\* its code (NoId).
NameItem(r) ==
    /\ Advance(r, "names", "answered")
    /\ named' = [named EXCEPT ![r] =
          CASE requested[r] \in Spoken(r) -> requested[r]
            [] requested[r] \notin Spoken(r) /\ default[r] \in Spoken(r) -> default[r]
            [] OTHER -> NoId]
    /\ default' = [default EXCEPT ![r] = NoId]
    /\ requested' = [requested EXCEPT ![r] = NoId]
    /\ item' = [item EXCEPT ![r] = NoId]
    /\ Reads

Read(r) ==
    \/ \E l \in Locales : Ask(r, l)
    \/ ReadDefault(r) \/ NoDefault(r) \/ ReadRequested(r) \/ NoLanguage(r)
    \/ ReadItem(r) \/ NameItem(r)

SeedNext ==
    \/ \E s \in Seeds : \/ Begin(s) \/ PutRow(s) \/ JoinRows(s) \/ ClearDefaults(s)
                        \/ Refused(s) \/ Fails(s) \/ Ends(s)
    \/ Administrators
    \/ \E r \in Readers : Read(r)

SeedSpec == SeedInit /\ [][SeedNext]_seedVars

-----------------------------------------------------------------------------
(* Properties.                                                             *)

SeedTypeOK ==
    /\ section \in Sections /\ credentials \in BOOLEAN
    /\ name \in [Ids -> Keys \cup Aliases \cup {"unborn", "gone"}]
    /\ active \in [Ids -> BOOLEAN] /\ isDefault \in [LanguageIds -> BOOLEAN]
    /\ parentId \in [MenuIds -> MenuIds \cup {NoId}]
    /\ permissionId \in [MenuIds -> Ids \cup {NoId}]
    /\ links \subseteq Ids \X Ids
    /\ state \in [Seeds -> {"idle", "running", "done", "refused", "failed"}]
    /\ next \in [Seeds -> Nat \ {0}]
    /\ got \in [Seeds -> [Keys -> Ids \cup {NoId}]]
    /\ stage \in [Readers -> {"idle", "default", "requested", "items", "names", "answered",
                              "unavailable", "refused"}]
    /\ locale \in [Readers -> Languages \cup {"any"}]
    /\ default \in [Readers -> Ids \cup {NoId}] /\ requested \in [Readers -> Ids \cup {NoId}]
    /\ item \in [Readers -> Ids \cup {NoId}]
    /\ named \in [Readers -> Ids \cup {NoId}]
    /\ pending \in [do : {"none", "move", "remove"}, option : MenuIds \cup {NoId},
                    under : MenuIds \cup {NoId}, at : MenuIds \cup {NoId}]
    /\ outdated \in BOOLEAN /\ edits \in 0..MaxEdits
    /\ disturbed \subseteq Seeds /\ bereft \subseteq Seeds
    /\ seeded \in BOOLEAN /\ informed \subseteq Readers

\* What a statement of the seed is to bring about, whatever came before it.
Holds(st) ==
    CASE st.do = "row" ->
            \E i \in Named(st.key) :
               /\ active[i] \/ ~ st.wakes
               /\ st.default # "kept" => (isDefault[i] <=> st.default = "yes")
               /\ st.parentId = "root" => parentId[i] = NoId
               /\ st.parentId \notin {"kept", "root"} => parentId[i] \in Named(st.parentId)
               /\ st.permissionId # "kept" => permissionId[i] \in Named(st.permissionId)
      [] st.do = "join" ->
            \E a \in Named(st.a), b \in Named(st.b) : <<a, b>> \in links
      [] OTHER -> \A i \in Defaults : name[i] = "es"

\* A run that comes to its end leaves behind all that the seed stands for, in
\* whatever state runs that stopped half-way or ran beside it and earlier
\* edits had left the tables; unless administrators were at work meanwhile,
\* or in the time of a run beside it, which may hold ids from before.
SeedConverges ==
    [][\A s \in Seeds \ disturbed :
          (state[s] = "running" /\ state'[s] = "done")
             => \A n \in 1..Len(Script) : Holds(Script[n])']_seedVars

\* Between the statements, and for any readers there are, a default language
\* is never missing once there is one: Spanish is set before the others are
\* cleared (getCatalogs and findAll answer 503 without one).
DefaultStays == [][Defaults # {} => Defaults' # {}]_seedVars

\* A request that comes after a run of the seed is answered in the language
\* it asked for, and never by a bare code, whatever other runs do meanwhile.
\* Before that it may be: items are stored before their names.
NamesAfterSeed ==
    \A r \in informed :
        /\ stage[r] # "unavailable"
        /\ stage[r] = "answered" => named[r] # NoId
        /\ (stage[r] = "answered" /\ locale[r] \in {"es", "en"}) => named[r] \in Named(locale[r])

\* The seed keeps ids for later statements, and a row may go meanwhile; only
\* by an administrator's deletion, so it is never refused by what it finds.
RefusedOnlyByDeletion ==
    [][\A s \in Seeds : (state[s] = "running" /\ state'[s] = "refused") => s \in bereft]_seedVars

\* The options of S lead out of it to no parent: a cycle, or options below one.
Closed(S) == S # {} /\ \A m \in S : parentId[m] \in S

\* The seed places menu options without a walk to the root.  A statement of a
\* run beside which no administrator writes closes a cycle only through the
\* row of "administration", which the upsert, unlike that of "crm", leaves
\* where an administrator has put it; and an administrator's move closes one
\* only when a run has moved an option since its walk began.
CyclesThroughAdministration ==
    [][\A S \in SUBSET Options' :
          (Closed(S)' /\ ~ (S \subseteq Options /\ Closed(S)))
             => \/ \E s \in Seeds :
                      /\ next'[s] # next[s]
                      /\ s \in disturbed \/ got[s]["administration"] \in S
                \/ pending' # pending /\ outdated]_<<name, parentId>>
=============================================================================
