------------------------- MODULE MenuSeedingProofs -------------------------
(***************************************************************************)
(* What TLAPS proves of the menus, as MenusService keeps them, for every   *)
(* set of options and calls, and of the seed that fills them beside the    *)
(* other tables, for any number of runs, readers and edits.                *)
(***************************************************************************)
EXTENDS MenuHierarchy, Seeding, TLAPS

USE MenuAssumption

-----------------------------------------------------------------------------
(* Trees, as functions from options to parents.                            *)

\* What Acyclic says, of any set of options and any parents.
IsTree(E, f) == \A S \in SUBSET E : S # {} => \E m \in S : f[m] \notin S

\* Taking options away leaves a tree.
LEMMA TreeShrinks ==
    ASSUME NEW E, NEW F \in SUBSET E, NEW f, NEW g, IsTree(E, f), \A m \in F : g[m] = f[m]
    PROVE  IsTree(F, g)
BY DEF IsTree

\* A new leaf keeps a tree.
LEMMA TreeGrows ==
    ASSUME NEW E, NEW m, m \notin E, NEW f, NEW g, IsTree(E, f),
           \A x \in E : g[x] = f[x] /\ f[x] # m,
           g[m] # m
    PROVE  IsTree(E \cup {m}, g)
<1> SUFFICES ASSUME NEW S \in SUBSET (E \cup {m}), S # {}
             PROVE  \E x \in S : g[x] \notin S
  BY DEF IsTree
<1>1. CASE S \ {m} = {}
  BY <1>1
<1>2. CASE S \ {m} # {}
  <2>1. PICK x \in S \ {m} : f[x] \notin S \ {m}
    BY <1>2 DEF IsTree
  <2> QED
    BY <2>1
<1> QED
  BY <1>1, <1>2

\* The heart of validateRelations: if the ancestors of p, followed to the
\* root, do not include m, then m can hang from p.
LEMMA MoveKeepsTree ==
    ASSUME NEW E, NEW m \in E, NEW p, NEW f, NEW g, NEW V \in SUBSET E,
           IsTree(E, f), p \in V, m \notin V, \A v \in V : f[v] \in V \/ f[v] \notin E,
           g[m] = p, \A x \in E \ {m} : g[x] = f[x]
    PROVE  IsTree(E, g)
<1> SUFFICES ASSUME NEW S \in SUBSET E, S # {}, \A x \in S : g[x] \in S
             PROVE  FALSE
  BY DEF IsTree
<1>1. CASE m \notin S
  BY <1>1 DEF IsTree
<1>2. CASE m \in S
  <2>1. p \in S \cap V
    BY <1>2
  <2>2. \A v \in S \cap V : f[v] \in S \cap V
    OBVIOUS
  <2> QED
    BY <2>1, <2>2 DEF IsTree
<1> QED
  BY <1>1, <1>2

\* An option moved to the root keeps a tree.
LEMMA RootKeepsTree ==
    ASSUME NEW E, NEW m \in E, NEW f, NEW g, IsTree(E, f),
           g[m] \notin E, \A x \in E \ {m} : g[x] = f[x]
    PROVE  IsTree(E, g)
<1> SUFFICES ASSUME NEW S \in SUBSET E, S # {}, \A x \in S : g[x] \in S
             PROVE  FALSE
  BY DEF IsTree
<1>1. m \notin S
  OBVIOUS
<1> QED
  BY <1>1 DEF IsTree

\* What the cascade leaves does not hang from what it takes.
LEMMA CascadeIsClosed ==
    ASSUME NEW m \in exists, NEW x \in exists, parent[x] \in Subtree(m)
    PROVE  x \in Subtree(m)
BY DEF Subtree

-----------------------------------------------------------------------------
(* The invariant.                                                          *)

\* The invariant holds of every tree, before any call.
LEMMA HierarchyInit == Init => HierarchyInvariant
<1> SUFFICES ASSUME Init PROVE HierarchyInvariant
  OBVIOUS
<1>1. TypeOK
  BY DEF Init, TypeOK
<1>2. TreeUnlessRaced
  BY DEF Init, TreeUnlessRaced
<1>3. WalkIsClosed /\ NothingSeenYet /\ CountStands
  BY DEF Init, WalkIsClosed, NothingSeenYet, CountStands
<1> QED
  BY <1>1, <1>2, <1>3 DEF HierarchyInvariant

\* Every step keeps the invariant: a write that is not stale keeps the tree, by
\* the lemmas above.
LEMMA HierarchyStep == HierarchyInvariant /\ [Next]_vars => HierarchyInvariant'
<1> SUFFICES ASSUME HierarchyInvariant, [Next]_vars PROVE HierarchyInvariant'
  OBVIOUS
<1> USE DEF HierarchyInvariant
<1>0. CASE UNCHANGED vars
  BY <1>0 DEF vars, treeVars, callVars, TypeOK, TreeUnlessRaced, Acyclic, WalkIsClosed,
              NothingSeenYet, CountStands
<1>1. ASSUME NEW c \in Calls, NEW o \in {"create", "move", "delete"}, NEW m \in Menus,
             NEW p \in Menus \cup {Root}, Arrive(c, o, m, p)
      PROVE  HierarchyInvariant'
  <2>1. TypeOK' /\ TreeUnlessRaced'
    BY <1>1 DEF Arrive, treeVars, TypeOK, TreeUnlessRaced, Acyclic
  <2>2. WalkIsClosed'
    BY <1>1 DEF Arrive, treeVars, TypeOK, WalkIsClosed, NothingSeenYet
  <2>3. NothingSeenYet'
    BY <1>1 DEF Arrive, treeVars, TypeOK, NothingSeenYet
  <2>4. CountStands'
    BY <1>1 DEF Arrive, treeVars, TypeOK, CountStands
  <2> QED
    BY <2>1, <2>2, <2>3, <2>4
<1>2. ASSUME NEW c \in Calls, ReadMenu(c)
      PROVE  HierarchyInvariant'
  <2>1. TypeOK' /\ TreeUnlessRaced'
    BY <1>2 DEF ReadMenu, Goto, treeVars, callVars, TypeOK, TreeUnlessRaced, Acyclic
  <2>2. WalkIsClosed'
    BY <1>2 DEF ReadMenu, Goto, treeVars, callVars, TypeOK, WalkIsClosed, NothingSeenYet
  <2>3. NothingSeenYet'
    BY <1>2 DEF ReadMenu, Goto, treeVars, callVars, TypeOK, NothingSeenYet
  <2>4. CountStands'
    BY <1>2 DEF ReadMenu, Goto, treeVars, callVars, TypeOK, NothingSeenYet, CountStands
  <2> QED
    BY <2>1, <2>2, <2>3, <2>4
<1>3. ASSUME NEW c \in Calls, ReadAncestor(c)
      PROVE  HierarchyInvariant'
  <2>1. /\ phase[c] = "walk" /\ at[c] \in exists /\ parent[at[c]] \in exists \cup {Root}
        /\ op[c] = "move" => parent[at[c]] # menu[c]
        /\ seen' = [seen EXCEPT ![c] = @ \cup {at[c]}]
        /\ UNCHANGED <<exists, parent, op, menu, target, stale, raced>>
    BY <1>3 DEF ReadAncestor, treeVars, callVars, TreeUnlessRaced
  <2>2. \/ /\ op[c] = "move" /\ parent[at[c]] # Root
           /\ at' = [at EXCEPT ![c] = parent[at[c]]] /\ phase' = phase
        \/ /\ op[c] = "move" => parent[at[c]] = Root
           /\ phase' = [phase EXCEPT ![c] = "write"] /\ at' = at
    BY <1>3 DEF ReadAncestor
  <2>3. TypeOK' /\ TreeUnlessRaced'
    BY <2>1, <2>2 DEF TypeOK, TreeUnlessRaced, Acyclic
  <2>4. \A d \in Calls \ {c} : /\ phase'[d] = phase[d] /\ at'[d] = at[d] /\ seen'[d] = seen[d]
    BY <2>1, <2>2 DEF TypeOK
  <2>5. seen'[c] = seen[c] \cup {at[c]}
    BY <2>1 DEF TypeOK
  <2>6. WalkIsClosed'
    <3>1. CASE op[c] = "move" /\ parent[at[c]] # Root
      <4>1. phase'[c] = "walk" /\ at'[c] = parent[at[c]]
        BY <2>1, <2>2, <3>1 DEF TypeOK
      <4> QED
        BY <2>1, <2>4, <2>5, <3>1, <4>1 DEF TypeOK, WalkIsClosed
    <3>2. CASE ~(op[c] = "move" /\ parent[at[c]] # Root)
      <4>1. phase'[c] = "write"
        BY <2>1, <2>2, <3>2 DEF TypeOK
      <4> QED
        BY <2>1, <2>4, <2>5, <3>2, <4>1 DEF TypeOK, WalkIsClosed
    <3> QED
      BY <3>1, <3>2
  <2>7. NothingSeenYet'
    <3>1. seen'[c] # {} /\ at'[c] \in Menus \cup {Root} /\ op[c] # "delete" /\ menu[c] \in Menus
      BY <2>1, <2>3, <2>5 DEF TypeOK, NothingSeenYet
    <3>2. \/ phase'[c] = "walk" /\ at'[c] \in Menus
          \/ phase'[c] = "write"
      BY <2>1, <2>2 DEF TypeOK
    <3> QED
      BY <2>1, <2>4, <3>1, <3>2 DEF NothingSeenYet
  <2>8. CountStands'
    BY <2>1, <2>4 DEF NothingSeenYet, CountStands
  <2> QED
    BY <2>3, <2>6, <2>7, <2>8
<1>4. ASSUME NEW c \in Calls, CountChildren(c)
      PROVE  HierarchyInvariant'
  <2>1. TypeOK' /\ TreeUnlessRaced'
    BY <1>4 DEF CountChildren, Goto, treeVars, callVars, TypeOK, TreeUnlessRaced, Acyclic
  <2>2. op[c] # "move"
    BY <1>4 DEF CountChildren, Goto, NothingSeenYet
  <2>3. WalkIsClosed'
    BY <1>4, <2>2 DEF CountChildren, Goto, treeVars, callVars, TypeOK, WalkIsClosed
  <2>4. NothingSeenYet'
    BY <1>4 DEF CountChildren, Goto, treeVars, callVars, TypeOK, NothingSeenYet
  <2>5. CountStands'
    BY <1>4 DEF CountChildren, Goto, treeVars, callVars, TypeOK, CountStands
  <2> QED
    BY <2>1, <2>3, <2>4, <2>5
<1>5. ASSUME NEW c \in Calls, Refuse(c) \/ Dies(c) \/ WriteFails(c)
      PROVE  HierarchyInvariant'
  BY <1>5 DEF Refuse, Dies, WriteFails, treeVars, callVars, TypeOK, TreeUnlessRaced, Acyclic,
              WalkIsClosed, NothingSeenYet, CountStands
<1>6. ASSUME NEW c \in Calls, Wrote(c), menu[c] \in Menus, target[c] \in Menus \cup {Root},
             exists' \subseteq Menus, parent' \in [Menus -> Menus \cup {Root}]
      PROVE  TypeOK' /\ WalkIsClosed' /\ NothingSeenYet' /\ CountStands'
  BY <1>6 DEF Wrote, Goto, callVars, TypeOK, WalkIsClosed, NothingSeenYet, CountStands
<1>7. ASSUME NEW c \in Calls, InsertMenu(c) \/ MoveMenu(c) \/ DeleteMenu(c)
      PROVE  Wrote(c) /\ phase[c] = "write" /\ menu[c] \in Menus /\ target[c] \in Menus \cup {Root}
  BY <1>7 DEF InsertMenu, MoveMenu, DeleteMenu, Wrote, Goto, TypeOK, NothingSeenYet
<1>8. Acyclic <=> IsTree(exists, parent)
  BY DEF Acyclic, IsTree
<1>9. Acyclic' <=> IsTree(exists', parent')
  BY DEF Acyclic, IsTree
<1>10. ASSUME NEW c \in Calls, InsertMenu(c)
       PROVE  HierarchyInvariant'
  <2>1. /\ menu[c] \in Menus \ exists /\ target[c] \in exists \cup {Root}
        /\ exists' = exists \cup {menu[c]}
        /\ parent' = [parent EXCEPT ![menu[c]] = target[c]]
        /\ parent \in [Menus -> Menus \cup {Root}] /\ exists \subseteq Menus
        /\ parent' \in [Menus -> Menus \cup {Root}] /\ exists' \subseteq Menus
    BY <1>7, <1>10 DEF InsertMenu, TypeOK
  <2>2. /\ \A x \in exists : parent'[x] = parent[x] /\ parent[x] \in exists \cup {Root}
        /\ parent'[menu[c]] = target[c]
    BY <2>1 DEF TreeUnlessRaced
  <2>3. ASSUME Acyclic PROVE Acyclic'
    <3>1. IsTree(exists, parent)
      BY <1>8, <2>3
    <3>2. /\ menu[c] \notin exists /\ parent'[menu[c]] # menu[c]
          /\ \A x \in exists : parent'[x] = parent[x] /\ parent[x] # menu[c]
      BY <2>1, <2>2
    <3>3. IsTree(exists \cup {menu[c]}, parent')
      BY <3>1, <3>2, TreeGrows
    <3> QED
      BY <1>9, <2>1, <3>3
  <2>4. raced => raced'
    BY <1>7, <1>10 DEF Wrote
  <2>5. TreeUnlessRaced'
    BY <2>1, <2>2, <2>3, <2>4 DEF TreeUnlessRaced
  <2> QED
    BY <1>6, <1>7, <1>10, <2>1, <2>5
<1>11. ASSUME NEW c \in Calls, MoveMenu(c)
       PROVE  HierarchyInvariant'
  <2>1. /\ menu[c] \in exists /\ target[c] \in exists \cup {Root}
        /\ exists' = exists
        /\ parent' = [parent EXCEPT ![menu[c]] = target[c]]
        /\ parent \in [Menus -> Menus \cup {Root}] /\ exists \subseteq Menus
        /\ parent' \in [Menus -> Menus \cup {Root}] /\ exists' \subseteq Menus
        /\ op[c] = "move" /\ phase[c] = "write"
    BY <1>7, <1>11 DEF MoveMenu, TypeOK
  <2>2. /\ parent'[menu[c]] = target[c]
        /\ \A x \in exists \ {menu[c]} : parent'[x] = parent[x]
    BY <2>1
  <2>3. CASE target[c] = Root
    <3>1. Acyclic => Acyclic'
      BY <1>8, <1>9, <2>1, <2>2, <2>3, RootKeepsTree
    <3>2. TreeUnlessRaced'
      BY <1>7, <1>11, <2>1, <2>2, <3>1 DEF TreeUnlessRaced, Wrote
    <3> QED
      BY <1>6, <1>7, <1>11, <2>1, <3>2
  <2>4. CASE target[c] # Root
    <3>1. c \notin stale => /\ seen[c] \in SUBSET exists
                            /\ target[c] \in seen[c] /\ menu[c] \notin seen[c]
                            /\ \A v \in seen[c] : parent[v] \in seen[c] \cup {Root}
      BY <2>1, <2>4 DEF WalkIsClosed
    <3>2. ASSUME c \notin stale, Acyclic PROVE Acyclic'
      <4>1. IsTree(exists, parent) /\ Root \notin exists
        BY <1>8, <2>1, <3>2
      <4>2. /\ seen[c] \in SUBSET exists /\ target[c] \in seen[c] /\ menu[c] \notin seen[c]
            /\ \A v \in seen[c] : parent[v] \in seen[c] \/ parent[v] \notin exists
        BY <3>1, <3>2, <4>1
      <4>3. menu[c] \in exists
        BY <2>1
      <4>4. IsTree(exists, parent')
        BY <2>2, <4>1, <4>2, <4>3, MoveKeepsTree
      <4> QED
        BY <1>9, <2>1, <4>4
    <3>3. raced' <=> (raced \/ c \in stale)
      BY <1>7, <1>11 DEF Wrote
    <3>4. TreeUnlessRaced'
      BY <2>1, <2>2, <3>2, <3>3 DEF TreeUnlessRaced
    <3> QED
      BY <1>6, <1>7, <1>11, <2>1, <3>4
  <2> QED
    BY <2>3, <2>4
<1>12. ASSUME NEW c \in Calls, DeleteMenu(c)
       PROVE  HierarchyInvariant'
  <2>1. /\ menu[c] \in exists
        /\ exists' = exists \ Subtree(menu[c])
        /\ parent' = [m \in Menus |-> IF m \in Subtree(menu[c]) THEN Root ELSE parent[m]]
        /\ parent \in [Menus -> Menus \cup {Root}] /\ exists \subseteq Menus
        /\ parent' \in [Menus -> Menus \cup {Root}] /\ exists' \subseteq Menus
    BY <1>12 DEF DeleteMenu, TypeOK
  <2>2. \A x \in exists' : parent'[x] = parent[x] /\ parent[x] \in exists' \cup {Root}
    BY <2>1, CascadeIsClosed DEF TreeUnlessRaced
  <2>3. Acyclic => Acyclic'
    BY <1>8, <1>9, <2>1, <2>2, TreeShrinks
  <2>4. TreeUnlessRaced'
    BY <1>7, <1>12, <2>1, <2>2, <2>3 DEF TreeUnlessRaced, Wrote
  <2> QED
    BY <1>6, <1>7, <1>12, <2>1, <2>4
<1> QED
  BY <1>0, <1>1, <1>2, <1>3, <1>4, <1>5, <1>10, <1>11, <1>12 DEF Next, Progress

\* The invariant of walks and counts, in every behaviour of MenusService.
THEOREM HierarchyHolds == Spec => []HierarchyInvariant
BY HierarchyInit, HierarchyStep, PTL DEF Spec

\* Without a race the menu is a tree, whatever the calls that move, create
\* and delete options, and whichever of them die.
THEOREM HierarchySafe == Spec => []TreeUnlessRaced
<1>1. HierarchyInvariant => TreeUnlessRaced
  BY DEF HierarchyInvariant
<1> QED
  BY <1>1, HierarchyHolds, PTL

\* An option without children takes nothing with it.
LEMMA LeafSubtree ==
    ASSUME NEW m \in exists, \A y \in exists : parent[y] # m
    PROVE  Subtree(m) = {m}
<1>1. m \in Subtree(m)
  BY DEF Subtree
<1>2. ASSUME NEW x \in Subtree(m)
      PROVE  x = m
  <2>1. /\ {m} \in SUBSET exists /\ m \in {m}
        /\ \A y \in exists : parent[y] \in {m} => y \in {m}
    OBVIOUS
  <2>2. x \in {m}
    BY <1>2, <2>1 DEF Subtree
  <2> QED
    BY <2>2
<1> QED
  BY <1>1, <1>2

\* A delete in whose span nothing else is written removes its option alone.
THEOREM LoneDeleteSafe == Spec => LoneDeleteTakesOne
<1> DEFINE Lone(c) == (op[c] = "delete" /\ phase[c] = "write" /\ phase'[c] = "done"
                         /\ c \notin stale /\ exists' # exists)
                       => exists' = exists \ {menu[c]}
<1>1. HierarchyInvariant /\ [Next]_vars => [\A c \in Calls : Lone(c)]_vars
  <2> SUFFICES ASSUME HierarchyInvariant, Next, NEW c \in Calls,
                      op[c] = "delete", phase[c] = "write", phase'[c] = "done",
                      c \notin stale, exists' # exists
               PROVE  exists' = exists \ {menu[c]}
    BY Zenon
  <2>1. PICK d \in Calls : InsertMenu(d) \/ MoveMenu(d) \/ DeleteMenu(d)
    BY DEF Next, Progress, Arrive, ReadMenu, ReadAncestor, CountChildren, Refuse, Dies,
           WriteFails, treeVars
  <2>2. d = c
    BY <2>1 DEF InsertMenu, MoveMenu, DeleteMenu, Wrote, Goto, HierarchyInvariant, TypeOK
  <2>3. menu[c] \in exists /\ exists' = exists \ Subtree(menu[c])
    BY <2>1, <2>2 DEF InsertMenu, MoveMenu, DeleteMenu
  <2>4. \A m \in exists : parent[m] # menu[c]
    BY DEF HierarchyInvariant, CountStands
  <2> QED
    BY <2>3, <2>4, LeafSubtree
<1> QED
  BY <1>1, HierarchyHolds, PTL DEF Spec, LoneDeleteTakesOne

HIDE MenuAssumption
USE SeedingAssumption, NoIdAssumption

-----------------------------------------------------------------------------
(* The lists of statements.                                                *)

Steps == 1..Len(Script)

\* The list of each section, written out.
LEMMA RightsList ==
    ASSUME section = "rights"
    PROVE  /\ Len(Script) = IF credentials THEN 5 ELSE 3
           /\ Script[1] = Put("*") /\ Script[2] = Put("admin") /\ Script[3] = Join("admin", "*")
           /\ credentials => Script[4] = Put("account") /\ Script[5] = Join("account", "admin")
BY DEF Script, RightsScript, PermissionStatements, RoleStatements, WildcardStatements,
       AccountStatements

LEMMA MenusList ==
    ASSUME section = "menus"
    PROVE  /\ Len(Script) = 5
           /\ Script[1] = Put("read") /\ Script[2] = Put("administration")
           /\ Script[3] = Upsert("crm", "root", "read", "kept")
           /\ Script[4] = Upsert("crm-leads", "crm", "read", "kept")
           /\ Script[5] = Upsert("users", "administration", "read", "kept")
BY DEF Script, MenusScript, PermissionStatements, MenuStatements, OptionStatements

LEMMA CatalogsList ==
    ASSUME section = "catalogs"
    PROVE  /\ Len(Script) = 10
           /\ Script[1] = Upsert("es", "kept", "kept", "yes")
           /\ Script[2] = Upsert("en", "kept", "kept", "no")
           /\ Script[3] = [do |-> "clear"]
           /\ Script[4] = Put("option")
           /\ Script[5] = Join("option", "es") /\ Script[6] = Join("option", "en")
           /\ Script[7] = Put("stage")
           /\ Script[8] = Join("stage", "es") /\ Script[9] = Join("stage", "en")
           /\ Script[10] = Put("NEW")
BY DEF Script, CatalogsScript, LanguageStatements, DevelopmentOptionStatements,
       ProjectStageStatements, CrmStatements

\* Statement n puts key k, or one before it does.
Puts(n, k) == Script[n].do = "row" /\ Script[n].key = k
Earlier(n, k) == \E m \in Steps : m < n /\ Puts(m, k)

\* Every list has a length.
LEMMA ScriptLength == section \in Sections => Len(Script) \in Nat
BY RightsList, MenusList, CatalogsList DEF Sections

Shape(st) ==
    /\ st.do \in {"row", "join", "clear"}
    /\ st.do = "row" =>
         /\ st.key \in Keys \ {"pt"}
         /\ st.parentId \in {"kept", "root"} \cup MenuKeys
         /\ st.permissionId \in {"kept"} \cup Permissions
         /\ st.default \in {"kept", "yes", "no"}
         /\ st.key \notin Languages => st.default = "kept"
         /\ st.key \in Languages => section = "catalogs"
         /\ st.key = "es" => st.default = "yes"
         /\ st.key = "en" => st.default = "no"
         /\ st.key \notin MenuKeys => st.parentId = "kept" /\ st.permissionId = "kept"
         /\ st.key = "administration" => st.parentId = "kept"
         /\ st.key = "crm" => st.parentId = "root"
         /\ st.key = "crm-leads" => st.parentId = "crm"
         /\ st.key = "users" => st.parentId = "administration"
         /\ st.wakes = (st.key # "account")
    /\ st.do = "join" => st.a \in Keys /\ st.b \in Keys
    /\ st.do = "clear" => section = "catalogs"

\* The shape of the statements.
LEMMA ShapeOfPut ==
    ASSUME NEW k \in Keys \ (Languages \cup MenuKeys)
    PROVE  Shape(Put(k))
BY DEF Shape, Put, Upsert, Join, Keys, Languages, Items, MenuKeys, Permissions, Roles

LEMMA ShapeOfJoin ==
    ASSUME NEW a \in Keys, NEW b \in Keys
    PROVE  Shape(Join(a, b))
BY DEF Shape, Join

\* Every statement of every list has the shape.
LEMMA ScriptShape ==
    ASSUME section \in Sections, NEW n \in Steps
    PROVE  Shape(Script[n])
<1>1. CASE section = "rights"
  <2>1. n \in 1..(IF credentials THEN 5 ELSE 3)
    BY <1>1, RightsList DEF Steps
  <2>2. \/ Script[n] = Put("*")
        \/ Script[n] = Put("admin")
        \/ Script[n] = Join("admin", "*")
        \/ Script[n] = Put("account")
        \/ Script[n] = Join("account", "admin")
    BY <1>1, <2>1, RightsList
  <2>3. \A k \in {"*", "admin", "account"} : Shape(Put(k))
    BY ShapeOfPut DEF Keys, Languages, Items, MenuKeys, Permissions, Roles
  <2>4. Shape(Join("admin", "*")) /\ Shape(Join("account", "admin"))
    BY ShapeOfJoin DEF Keys, Languages, Items, MenuKeys, Permissions, Roles
  <2> QED
    BY <2>2, <2>3, <2>4
<1>2. CASE section = "menus"
  <2>1. n \in 1..5
    BY <1>2, MenusList DEF Steps
  <2>2. \/ Script[n] = Put("read")
        \/ Script[n] = Put("administration")
        \/ Script[n] = Upsert("crm", "root", "read", "kept")
        \/ Script[n] = Upsert("crm-leads", "crm", "read", "kept")
        \/ Script[n] = Upsert("users", "administration", "read", "kept")
    BY <1>2, <2>1, MenusList
  <2>3. \A k \in {"read"} : Shape(Put(k))
    BY ShapeOfPut DEF Keys, Languages, Items, MenuKeys, Permissions, Roles
  <2>4. Shape(Put("administration"))
    BY <1>2 DEF Shape, Put, Upsert, Join, Keys, Languages, Items, MenuKeys, Permissions, Roles
  <2>5. Shape(Upsert("crm", "root", "read", "kept"))
    BY <1>2 DEF Shape, Put, Upsert, Join, Keys, Languages, Items, MenuKeys, Permissions, Roles
  <2>6. Shape(Upsert("crm-leads", "crm", "read", "kept"))
    BY <1>2 DEF Shape, Put, Upsert, Join, Keys, Languages, Items, MenuKeys, Permissions, Roles
  <2>7. Shape(Upsert("users", "administration", "read", "kept"))
    BY <1>2 DEF Shape, Put, Upsert, Join, Keys, Languages, Items, MenuKeys, Permissions, Roles
  <2> QED
    BY <2>2, <2>3, <2>4, <2>5, <2>6, <2>7
<1>3. CASE section = "catalogs"
  <2>1. n \in 1..10
    BY <1>3, CatalogsList DEF Steps
  <2>2. \/ Script[n] = Upsert("es", "kept", "kept", "yes")
        \/ Script[n] = Upsert("en", "kept", "kept", "no")
        \/ Script[n] = [do |-> "clear"]
        \/ Script[n] = Put("option")
        \/ Script[n] = Join("option", "es")
        \/ Script[n] = Join("option", "en")
        \/ Script[n] = Put("stage")
        \/ Script[n] = Join("stage", "es")
        \/ Script[n] = Join("stage", "en")
        \/ Script[n] = Put("NEW")
    BY <1>3, <2>1, CatalogsList
  <2>3. \A k \in {"option", "stage", "NEW"} : Shape(Put(k))
    BY ShapeOfPut DEF Keys, Languages, Items, MenuKeys, Permissions, Roles
  <2>4. \A i \in {"option", "stage"}, l \in {"es", "en"} : Shape(Join(i, l))
    BY ShapeOfJoin DEF Keys, Languages, Items, MenuKeys, Permissions, Roles
  <2>5. Shape(Upsert("es", "kept", "kept", "yes"))
    BY <1>3 DEF Shape, Put, Upsert, Join, Keys, Languages, Items, MenuKeys, Permissions, Roles
  <2>6. Shape(Upsert("en", "kept", "kept", "no"))
    BY <1>3 DEF Shape, Put, Upsert, Join, Keys, Languages, Items, MenuKeys, Permissions, Roles
  <2>7. Shape([do |-> "clear"])
    BY <1>3 DEF Shape
  <2> QED
    BY <2>2, <2>3, <2>4, <2>5, <2>6, <2>7
<1> QED
  BY <1>1, <1>2, <1>3 DEF Sections

\* No key is put twice, and what a statement refers to has been put before.
LEMMA ScriptOrder ==
    ASSUME section \in Sections, NEW n \in Steps
    PROVE  /\ \A k : \A m \in Steps : Puts(n, k) /\ Puts(m, k) => m = n
           /\ Script[n].do = "row" =>
                \A r \in {Script[n].parentId, Script[n].permissionId} \ {"kept", "root"} :
                   Earlier(n, r)
           /\ Script[n].do = "join" => Earlier(n, Script[n].a) /\ Earlier(n, Script[n].b)
           /\ Script[n].do = "clear" \/ Puts(n, "en") => Earlier(n, "es")
<1>1. CASE section = "rights"
  <2>1. Steps = 1..(IF credentials THEN 5 ELSE 3)
    BY <1>1, RightsList DEF Steps
  <2>2. /\ Script[1].do = "row" /\ Script[1].key = "*"
           /\ Script[1].parentId = "kept" /\ Script[1].permissionId = "kept"
        /\ Script[2].do = "row" /\ Script[2].key = "admin"
           /\ Script[2].parentId = "kept" /\ Script[2].permissionId = "kept"
        /\ Script[3].do = "join" /\ Script[3].a = "admin" /\ Script[3].b = "*"
        /\ credentials => Script[4].do = "row" /\ Script[4].key = "account"
           /\ Script[4].parentId = "kept" /\ Script[4].permissionId = "kept"
        /\ credentials => Script[5].do = "join" /\ Script[5].a = "account" /\ Script[5].b = "admin"
    BY <1>1, RightsList DEF Put, Upsert, Join
  <2> QED
    BY <2>1, <2>2 DEF Puts, Earlier
<1>2. CASE section = "menus"
  <2>1. Steps = 1..5
    BY <1>2, MenusList DEF Steps
  <2>2. /\ Script[1].do = "row" /\ Script[1].key = "read"
           /\ Script[1].parentId = "kept" /\ Script[1].permissionId = "kept"
        /\ Script[2].do = "row" /\ Script[2].key = "administration"
           /\ Script[2].parentId = "kept" /\ Script[2].permissionId = "kept"
        /\ Script[3].do = "row" /\ Script[3].key = "crm"
           /\ Script[3].parentId = "root" /\ Script[3].permissionId = "read"
        /\ Script[4].do = "row" /\ Script[4].key = "crm-leads"
           /\ Script[4].parentId = "crm" /\ Script[4].permissionId = "read"
        /\ Script[5].do = "row" /\ Script[5].key = "users"
           /\ Script[5].parentId = "administration" /\ Script[5].permissionId = "read"
    BY <1>2, MenusList DEF Put, Upsert, Join
  <2> QED
    BY <2>1, <2>2 DEF Puts, Earlier
<1>3. CASE section = "catalogs"
  <2>1. Steps = 1..10
    BY <1>3, CatalogsList DEF Steps
  <2>2. /\ Script[1].do = "row" /\ Script[1].key = "es"
           /\ Script[1].parentId = "kept" /\ Script[1].permissionId = "kept"
        /\ Script[2].do = "row" /\ Script[2].key = "en"
           /\ Script[2].parentId = "kept" /\ Script[2].permissionId = "kept"
        /\ Script[3].do = "clear"
        /\ Script[4].do = "row" /\ Script[4].key = "option"
           /\ Script[4].parentId = "kept" /\ Script[4].permissionId = "kept"
        /\ Script[5].do = "join" /\ Script[5].a = "option" /\ Script[5].b = "es"
        /\ Script[6].do = "join" /\ Script[6].a = "option" /\ Script[6].b = "en"
        /\ Script[7].do = "row" /\ Script[7].key = "stage"
           /\ Script[7].parentId = "kept" /\ Script[7].permissionId = "kept"
        /\ Script[8].do = "join" /\ Script[8].a = "stage" /\ Script[8].b = "es"
        /\ Script[9].do = "join" /\ Script[9].a = "stage" /\ Script[9].b = "en"
        /\ Script[10].do = "row" /\ Script[10].key = "NEW"
           /\ Script[10].parentId = "kept" /\ Script[10].permissionId = "kept"
    BY <1>3, CatalogsList DEF Put, Upsert, Join
  <2> QED
    BY <2>1, <2>2 DEF Puts, Earlier
<1> QED
  BY <1>1, <1>2, <1>3 DEF Sections
-----------------------------------------------------------------------------
(* The inductive invariant.                                                *)

\* A row is of the kind of key k: it was added under it, or may be given it.
Fits(i, k) == k = i[1] \/ k \in NamesFor(i)

\* Rows keep the key they were added with, or get a name of their kind; no two
\* have the same.
NamesUnique ==
    /\ \A i \in Ids : name[i] \in {"unborn", "gone"} \/ Fits(i, name[i])
    /\ \A i, j \in Ids : There(i) /\ name[i] = name[j] => i = j

\* A run holds ids for the keys that it has put, of rows of their kind, and has
\* rows of its own only for these.
RunsKeepIds ==
    \A s \in Seeds :
        /\ state[s] # "running" => next[s] = 1 /\ \A k \in Keys : got[s][k] = NoId
        /\ \A k \in Keys :
            /\ got[s][k] # NoId => Fits(got[s][k], k)
            /\ got[s][k] # NoId <=> Earlier(next[s], k)
            /\ (state[s] \in {"idle", "running"} /\ got[s][k] = NoId) => name[<<k, s>>] = "unborn"

\* As long as no administrator deletes, the rows are there; as long as none
\* does anything, under their names.
IdsStand ==
    \A s \in Running, k \in Keys : got[s][k] # NoId =>
        /\ s \notin bereft => There(got[s][k])
        /\ disturbed = {} => name[got[s][k]] = k

\* Runs that overlap are disturbed together; nobody edits in the catalogues.
DisturbedTogether ==
    /\ disturbed \in {{}, Running}
    /\ section = "catalogs" => disturbed = {} /\ bereft = {} /\ pending = NoRequest

\* What undisturbed runs, and the first that ended, have brought about stands.
Made(s) == {Script[n] : n \in {m \in Steps : m < next[s]}}
StatementsStand ==
    /\ disturbed = {} => \A s \in Running : \A st \in Made(s) : Holds(st)
    /\ section = "catalogs" /\ seeded => \A st \in {Script[n] : n \in Steps} : Holds(st)

\* What a request that came after a run has read is still so.
ReadersInformed ==
    \A r \in informed :
        /\ section = "catalogs" /\ seeded /\ stage[r] # "idle"
        /\ stage[r] \in {"requested", "items", "names"} => default[r] \in Named("es")
        /\ stage[r] \in {"items", "names"} =>
              requested[r] \in Named(IF locale[r] = "any" THEN "es" ELSE locale[r])
        /\ stage[r] = "names" => item[r] \in Named("option") \cup Named("stage")

\* Where the seed finds and leaves the options it puts others under.
OptionsPlaced ==
    /\ \A m \in MenuIds : name[m] = "unborn" => parentId[m] = NoId
    /\ disturbed = {} =>
          \A s \in Running : got[s]["crm"] # NoId => parentId[got[s]["crm"]] = NoId

\* How far the walk of a move has come: by every option from which no parent
\* leads out of a set with the new parent in it, but perhaps that of the option
\* moved.
Walked ==
    pending.do = "move" =>
       /\ pending.option \in Options /\ pending.under \in Options
       /\ pending.at # pending.option
       /\ ~ outdated => \A S \in SUBSET Options :
             (pending.under \in S /\ \A m \in S \ {pending.option} : parentId[m] \in S)
                => pending.at \in S

SeedingInvariant ==
    /\ SeedTypeOK /\ NamesUnique /\ RunsKeepIds /\ IdsStand /\ DisturbedTogether /\ StatementsStand
    /\ ReadersInformed /\ NamesAfterSeed /\ OptionsPlaced /\ Walked

-----------------------------------------------------------------------------
\* The list does not change while the behaviour goes on.
LEMMA ScriptStays == settings' = settings => Script' = Script
BY DEF settings, Script, RightsScript, MenusScript, CatalogsScript, AccountStatements,
       PermissionStatements, RoleStatements, WildcardStatements, MenuStatements, OptionStatements,
       LanguageStatements, DevelopmentOptionStatements, ProjectStageStatements, CrmStatements,
       Put, Upsert, Join

-----------------------------------------------------------------------------
(* What the statements do, in terms of the invariant.                      *)

\* The upsert st of run s has found row i, or adds it.
Putting(s, st, i) ==
    /\ state[s] = "running" /\ next[s] \in Steps /\ Script[next[s]] = st
    /\ st.do = "row" /\ Shape(st)
    /\ i \in Ids /\ Fits(i, st.key) /\ got[s][st.key] = NoId
    /\ name[i] = st.key \/ (name[i] = "unborn" /\ Named(st.key) = {} /\ i = <<st.key, s>>)
    /\ name' = [name EXCEPT ![i] = st.key]
    /\ active' = [active EXCEPT ![i] = @ \/ st.wakes]
    /\ st.default = "kept" => isDefault' = isDefault
    /\ st.default # "kept" => isDefault' = [isDefault EXCEPT ![i] = st.default = "yes"]
    /\ i \notin MenuIds => parentId' = parentId /\ permissionId' = permissionId
    /\ i \in MenuIds => /\ parentId' = [parentId EXCEPT ![i] = Reference(s, st.parentId, @)]
                        /\ permissionId' =
                             [permissionId EXCEPT ![i] = Reference(s, st.permissionId, @)]
    /\ got' = [got EXCEPT ![s][st.key] = i]
    /\ \A r \in {st.parentId, st.permissionId} \ {"kept", "root"} :
          r \in Keys /\ got[s][r] # NoId /\ There(got[s][r])
    /\ next' = [next EXCEPT ![s] = @ + 1]
    /\ outdated' = (outdated \/ (pending.do = "move" /\ parentId' # parentId))
    /\ UNCHANGED <<settings, links, state, readerVars, pending, historyVars>>

-----------------------------------------------------------------------------
(* The kinds of rows.                                                      *)

\* An option is called as options are, a right as rights of its kind, and
\* other rows keep their names.
LEMMA NamesByKind ==
    ASSUME NEW i
    PROVE  NamesFor(i) =
             {k \in Keys \cup Aliases :
                 \/ i[1] \in MenuKeys /\ k \in MenuKeys \cup {"another option"}
                 \/ i[1] \in Roles /\ k \in Roles \cup {"another role"}
                 \/ i[1] \in Permissions /\ k \in {"read", "another permission"}}
<1>1. /\ MenuKeys \cap (Roles \cup Permissions) = {} /\ Roles \cap Permissions = {}
      /\ MenuKeys \cup {"another option"} \subseteq Keys \cup Aliases
      /\ Roles \cup {"another role"} \subseteq Keys \cup Aliases
      /\ {"read", "another permission"} \subseteq Keys \cup Aliases
  BY DEF Aliases, Keys, MenuKeys, Permissions, Roles
<1>2. CASE i[1] \in MenuKeys
  <2>1. NamesFor(i) = MenuKeys \cup {"another option"}
    BY <1>1, <1>2 DEF NamesFor
  <2> QED
    BY <1>1, <1>2, <2>1
<1>3. CASE i[1] \in Roles
  <2>1. NamesFor(i) = Roles \cup {"another role"}
    BY <1>1, <1>3 DEF NamesFor
  <2> QED
    BY <1>1, <1>3, <2>1
<1>4. CASE i[1] \in Permissions
  <2>1. NamesFor(i) = {"read", "another permission"}
    BY <1>1, <1>4 DEF NamesFor
  <2> QED
    BY <1>1, <1>4, <2>1
<1>5. CASE i[1] \notin MenuKeys \cup Roles \cup Permissions
  BY <1>5 DEF NamesFor
<1> QED
  BY <1>2, <1>3, <1>4, <1>5

\* No key and no name that is given means that there is no row.
LEMMA NamesOfRows ==
    /\ "unborn" \notin Keys /\ "gone" \notin Keys
    /\ \A i \in Ids : /\ NamesFor(i) \subseteq Keys \cup Aliases
                      /\ "unborn" \notin NamesFor(i) /\ "gone" \notin NamesFor(i)
<1>1. \A k \in Keys \cup Aliases : k \notin {"unborn", "gone"}
  BY DEF Aliases, Keys, Languages, Items, MenuKeys, Permissions, Roles
<1>2. \A i \in Ids : NamesFor(i) \subseteq Keys \cup Aliases
  BY NamesByKind
<1> QED
  BY <1>1, <1>2

\* The options among the rows.
LEMMA OptionRows ==
    ASSUME NEW i \in Ids, i[1] \in MenuKeys
    PROVE  i \in MenuIds
BY DEF Ids, MenuIds, MenuKeys

\* The key of an option.
LEMMA OptionKeys ==
    ASSUME NEW i \in MenuIds
    PROVE  i \in Ids /\ i[1] \in MenuKeys /\ i # NoId
BY NoIdAssumption DEF Ids, MenuIds, Keys

\* Names of options are for options, those of languages for languages.
LEMMA KindsFit ==
    ASSUME NEW i \in Ids, NEW k \in Keys, Fits(i, k)
    PROVE  /\ k \in MenuKeys <=> i \in MenuIds
           /\ k \in Languages <=> i \in LanguageIds
<1>1. i \in MenuIds <=> i[1] \in MenuKeys
  BY OptionRows, OptionKeys
<1>2. i \in LanguageIds <=> i[1] \in Languages
  BY DEF LanguageIds
<1>3. (k \in MenuKeys <=> i[1] \in MenuKeys) /\ (k \in Languages <=> i[1] \in Languages)
  <2>1. MenuKeys \cap (Languages \cup Roles \cup Permissions) = {}
    BY DEF Languages, MenuKeys, Permissions, Roles
  <2>2. Languages \cap (Roles \cup Permissions) = {} /\ "read" \in Permissions
    BY DEF Languages, Permissions, Roles
  <2>3. k \notin Aliases
    BY DEF Aliases, Keys, Languages, Items, MenuKeys, Permissions, Roles
  <2>4. \/ k = i[1]
        \/ i[1] \in MenuKeys /\ k \in MenuKeys
        \/ i[1] \in Roles \cup Permissions /\ k \in Roles \cup Permissions
    BY <2>2, <2>3, NamesByKind DEF Fits, Aliases
  <2> QED
    BY <2>1, <2>2, <2>4
<1> QED
  BY <1>1, <1>2, <1>3

\* A row that goes by a key of the seed is of the kind of that key.
LEMMA NameFits ==
    ASSUME NamesUnique, NEW i \in Ids, name[i] \in Keys
    PROVE  Fits(i, name[i])
BY NamesOfRows DEF NamesUnique

-----------------------------------------------------------------------------
(* The steps, in the terms of the invariant.                               *)

\* PutRow is such an upsert, whichever row it has found.
LEMMA PutRowPuts ==
    ASSUME SeedTypeOK, NamesUnique, RunsKeepIds, NEW s \in Seeds, PutRow(s)
    PROVE  \E st, i : Putting(s, st, i)
<1> DEFINE n == next[s]
<1>1. /\ state[s] = "running" /\ n \in Steps /\ Script[n].do = "row"
      /\ \A i \in Needs(s) : There(i)
  BY ScriptLength DEF PutRow, Turn, Statement, SeedTypeOK, Steps
<1> PICK st : st = Script[n]
  OBVIOUS
<1>2. Shape(st) /\ st.key \in Keys
  BY <1>1, ScriptShape DEF SeedTypeOK, Shape
<1>3. ~ Earlier(n, st.key)
  <2>1. Puts(n, st.key) /\ section \in Sections
    BY <1>1 DEF Puts, SeedTypeOK
  <2>2. \A m \in Steps : Puts(m, st.key) => m = n
    BY <1>1, <2>1, ScriptOrder
  <2> QED
    BY <1>1, <2>2 DEF Earlier, Steps
<1>4. got[s][st.key] = NoId /\ name[<<st.key, s>>] = "unborn"
  BY <1>1, <1>2, <1>3 DEF RunsKeepIds
<1> PICK i : i = RowOf(st.key, s)
  OBVIOUS
<1>5. \/ i \in Ids /\ name[i] = st.key
      \/ name[i] = "unborn" /\ Named(st.key) = {} /\ i = <<st.key, s>>
  BY <1>4 DEF RowOf, Named
<1>6. i \in Ids /\ Fits(i, st.key)
  <2>1. CASE i \in Ids /\ name[i] = st.key
    BY <1>2, <2>1, NameFits
  <2>2. CASE i = <<st.key, s>>
    BY <1>2, <2>2 DEF Ids, Fits
  <2> QED
    BY <1>5, <2>1, <2>2
<1>7. \A r \in {st.parentId, st.permissionId} \ {"kept", "root"} :
          r \in Keys /\ got[s][r] # NoId /\ There(got[s][r])
  <2> TAKE r \in {st.parentId, st.permissionId} \ {"kept", "root"}
  <2>1. r \in Keys
    BY <1>1, <1>2 DEF Shape, Keys
  <2>2. There(got[s][r])
    BY <1>1 DEF Needs, Statement
  <2> QED
    BY <2>1, <2>2 DEF There
<1>8. /\ name' = [name EXCEPT ![i] = st.key]
      /\ active' = [active EXCEPT ![i] = @ \/ st.wakes]
      /\ isDefault' = IF st.default = "kept" THEN isDefault
                      ELSE [isDefault EXCEPT ![i] = st.default = "yes"]
      /\ IF i \in MenuIds
         THEN /\ parentId' = [parentId EXCEPT ![i] = Reference(s, st.parentId, @)]
              /\ permissionId' = [permissionId EXCEPT ![i] = Reference(s, st.permissionId, @)]
         ELSE UNCHANGED <<parentId, permissionId>>
      /\ got' = [got EXCEPT ![s][st.key] = i]
      /\ next' = [next EXCEPT ![s] = @ + 1]
      /\ outdated' = (outdated \/ (pending.do = "move" /\ parentId' # parentId))
      /\ UNCHANGED <<settings, links, state, readerVars, pending, historyVars>>
  BY DEF PutRow, Statement, Done
<1>9. Putting(s, st, i)
  BY <1>1, <1>2, <1>4, <1>5, <1>6, <1>7, <1>8 DEF Putting
<1> QED
  BY <1>9

\* What a reader does shows in its own variables only.
LEMMA ReadersRead ==
    ASSUME NEW r \in Readers, Read(r)
    PROVE  UNCHANGED <<settings, tableVars, runVars, pending, outdated, edits, disturbed, bereft,
                       seeded>>
BY DEF Read, Ask, ReadDefault, NoDefault, ReadRequested, NoLanguage, ReadItem, NameItem, Reads,
       historyVars

\* What an administrator writes disturbs the runs under way.
LEMMA AdministratorsEdit ==
    ASSUME DisturbedTogether, AdministratorsWrite
    PROVE  /\ section # "catalogs" /\ edits' \in {edits, edits + 1}
           /\ edits' # edits => edits < MaxEdits
           /\ disturbed' = disturbed \cup Running
           /\ pending' = NoRequest
           /\ UNCHANGED <<settings, isDefault, runVars, readerVars, seeded, informed>>
<1>1. CASE Edit
  <2>1. Request /\ Write /\ pending' = pending
    BY <1>1 DEF Edit
  <2> QED
    BY <2>1 DEF Request, MayAsk, Write
<1>2. CASE MoveUnder \/ RemoveMenu
  <2>1. Write /\ pending' = NoRequest /\ edits' = edits /\ pending.do # "none"
    BY <1>2 DEF MoveUnder, RemoveMenu
  <2>2. pending # NoRequest
    BY <2>1 DEF NoRequest
  <2> QED
    BY <2>1, <2>2 DEF Write, DisturbedTogether
<1> QED
  BY <1>1, <1>2
     DEF AdministratorsWrite, Rename, DeleteRight, Unassign, SwitchOff, MoveToRoot

\* What one reads leaves all but the request alone.
LEMMA AdministratorsLook ==
    ASSUME DisturbedTogether, AdministratorsRead
    PROVE  /\ section # "catalogs" /\ edits' \in {edits, edits + 1}
           /\ edits' # edits => edits < MaxEdits
           /\ UNCHANGED <<settings, tableVars, runVars, readerVars, disturbed, bereft, seeded,
                          informed>>
BY DEF AdministratorsRead, AskMove, AskRemoval, WalkUp, Withdraw, Request, MayAsk, Reading,
       NoRequest, DisturbedTogether

\* A name changes by a deletion, or to one that nobody has.
LEMMA AdministratorsName ==
    ASSUME AdministratorsWrite
    PROVE  \/ name' = name /\ bereft' = bereft
           \/ \E rows \in SUBSET Ids :
                 /\ \A i \in rows : There(i)
                 /\ name' = [i \in Ids |-> IF i \in rows THEN "gone" ELSE name[i]]
                 /\ bereft' = bereft \cup Running
           \/ \E i \in Ids : \E k \in NamesFor(i) :
                 /\ There(i) /\ Named(k) = {}
                 /\ name' = [name EXCEPT ![i] = k]
                 /\ bereft' = bereft
<1>1. ASSUME RemoveMenu
      PROVE  \E rows \in SUBSET Ids : Delete(rows) /\ bereft' = bereft \cup Running
                                     /\ \A i \in rows : There(i)
  <2>1. Below(pending.option) \subseteq Options
    BY DEF Below
  <2> QED
    BY <1>1, <2>1, OptionKeys DEF RemoveMenu, Options
<1>2. ASSUME NEW i \in Ids, DeleteRight(i)
      PROVE  \E rows \in SUBSET Ids : Delete(rows) /\ bereft' = bereft \cup Running
                                     /\ \A j \in rows : There(j)
  <2>1. {i} \in SUBSET Ids /\ There(i) /\ Delete({i}) /\ bereft' = bereft \cup Running
    BY <1>2 DEF DeleteRight
  <2> QED
    BY <2>1
<1>3. ASSUME NEW rows \in SUBSET Ids, Delete(rows)
      PROVE  name' = [i \in Ids |-> IF i \in rows THEN "gone" ELSE name[i]]
  BY <1>3 DEF Delete
<1> QED
  BY <1>1, <1>2, <1>3 DEF AdministratorsWrite, Rename, Unassign, SwitchOff, MoveToRoot, MoveUnder

\* The end of a run.
LEMMA RunsStop ==
    ASSUME NEW s \in Seeds, Refused(s) \/ Fails(s) \/ Ends(s)
    PROVE  /\ state[s] = "running"
           /\ \E how \in {"refused", "failed", "done"} : Stops(s, how)
           /\ seeded' = seeded \/ (seeded' = TRUE /\ next[s] > Len(Script))
BY DEF Refused, Fails, Ends, Turn, Stops

\* The ids that a run holds.
LEMMA IdHeld ==
    ASSUME SeedTypeOK, RunsKeepIds, NEW s \in Seeds, NEW k \in Keys, got[s][k] # NoId
    PROVE  got[s][k] \in Ids /\ Fits(got[s][k], k)
<1>1. got[s][k] \in Ids
  BY DEF SeedTypeOK
<1>2. Fits(got[s][k], k)
  BY DEF RunsKeepIds
<1> QED
  BY <1>1, <1>2

\* The reference of an upsert, for the option it puts.
LEMMA ReferenceType ==
    ASSUME SeedTypeOK, RunsKeepIds, NEW s \in Seeds, NEW st, NEW i, Putting(s, st, i), i \in MenuIds
    PROVE  /\ Reference(s, st.parentId, parentId[i]) \in MenuIds \cup {NoId}
           /\ Reference(s, st.permissionId, permissionId[i]) \in Ids \cup {NoId}
<1>1. parentId[i] \in MenuIds \cup {NoId} /\ permissionId[i] \in Ids \cup {NoId}
  BY DEF SeedTypeOK
<1>2. ASSUME NEW r \in {st.parentId, st.permissionId} \ {"kept", "root"}
      PROVE  got[s][r] \in Ids /\ (r \in MenuKeys => got[s][r] \in MenuIds)
  <2>1. r \in Keys /\ got[s][r] # NoId
    BY <1>2 DEF Putting
  <2> QED
    BY <2>1, IdHeld, KindsFit
<1>3. st.parentId \in {"kept", "root"} \cup MenuKeys
  BY DEF Putting, Shape
<1> QED
  BY <1>1, <1>2, <1>3 DEF Reference

-----------------------------------------------------------------------------
(* The steps keep the invariant, part by part.                             *)

\* Every step keeps the types.
LEMMA TypeStep ==
    ASSUME SeedingInvariant, [SeedNext]_seedVars
    PROVE  SeedTypeOK'
<1> USE DEF SeedingInvariant
<1>0. CASE UNCHANGED seedVars
  BY <1>0 DEF seedVars, settings, tableVars, runVars, readerVars, historyVars, SeedTypeOK
<1>1. ASSUME NEW s \in Seeds, Begin(s)
      PROVE  SeedTypeOK'
  BY <1>1 DEF Begin, settings, tableVars, readerVars, SeedTypeOK
<1>2. ASSUME NEW s \in Seeds, PutRow(s)
      PROVE  SeedTypeOK'
  <2> PICK st, i : Putting(s, st, i)
    BY <1>2, PutRowPuts
  <2>1. st.key \in Keys /\ i \in Ids
    BY DEF Putting, Shape
  <2>2. name' \in [Ids -> Keys \cup Aliases \cup {"unborn", "gone"}]
    BY <2>1 DEF Putting, SeedTypeOK
  <2>3. active' \in [Ids -> BOOLEAN]
    <3>1. active \in [Ids -> BOOLEAN] /\ st.wakes \in BOOLEAN
      BY DEF Putting, Shape, SeedTypeOK
    <3>2. active' = [active EXCEPT ![i] = @ \/ st.wakes]
      BY DEF Putting
    <3> QED
      BY <2>1, <3>1, <3>2
  <2>4. isDefault' \in [LanguageIds -> BOOLEAN]
    <3>1. isDefault \in [LanguageIds -> BOOLEAN]
      BY DEF SeedTypeOK
    <3>2. \/ isDefault' = isDefault
          \/ isDefault' = [isDefault EXCEPT ![i] = st.default = "yes"]
      BY DEF Putting
    <3> QED
      BY <3>1, <3>2
  <2>5. /\ parentId' \in [MenuIds -> MenuIds \cup {NoId}]
        /\ permissionId' \in [MenuIds -> Ids \cup {NoId}]
    <3>1. CASE i \in MenuIds
      <4> DEFINE p == Reference(s, st.parentId, parentId[i])
                 q == Reference(s, st.permissionId, permissionId[i])
      <4>1. p \in MenuIds \cup {NoId} /\ q \in Ids \cup {NoId}
        BY <3>1, ReferenceType
      <4>2. parentId' = [parentId EXCEPT ![i] = p] /\ permissionId' = [permissionId EXCEPT ![i] = q]
        BY <3>1 DEF Putting
      <4> HIDE DEF p, q
      <4> QED
        BY <4>1, <4>2 DEF SeedTypeOK
    <3>2. CASE i \notin MenuIds
      BY <3>2 DEF Putting, SeedTypeOK
    <3> QED
      BY <3>1, <3>2
  <2>6. got' \in [Seeds -> [Keys -> Ids \cup {NoId}]]
    BY <2>1 DEF Putting, SeedTypeOK
  <2>7. next' \in [Seeds -> Nat \ {0}]
    BY DEF Putting, SeedTypeOK
  <2> QED
    BY <2>2, <2>3, <2>4, <2>5, <2>6, <2>7
       DEF Putting, settings, readerVars, historyVars, SeedTypeOK
<1>3. ASSUME NEW s \in Seeds, JoinRows(s)
      PROVE  SeedTypeOK'
  <2>1. <<got[s][Statement(s).a], got[s][Statement(s).b]>> \in Ids \X Ids
    <3>1. next[s] \in Steps /\ Statement(s).do = "join"
      BY <1>3, ScriptLength DEF JoinRows, Turn, SeedTypeOK, Steps
    <3>2. Statement(s).a \in Keys /\ Statement(s).b \in Keys
      BY <3>1, ScriptShape DEF Statement, Shape, SeedTypeOK
    <3>3. There(got[s][Statement(s).a]) /\ There(got[s][Statement(s).b])
      BY <1>3, <3>1 DEF JoinRows, Needs
    <3> QED
      BY <3>2, <3>3 DEF There, SeedTypeOK
  <2> QED
    BY <1>3, <2>1 DEF JoinRows, Done, settings, readerVars, historyVars, SeedTypeOK
<1>4. ASSUME NEW s \in Seeds, ClearDefaults(s)
      PROVE  SeedTypeOK'
  BY <1>4 DEF ClearDefaults, Done, settings, readerVars, historyVars, SeedTypeOK
<1>5. ASSUME NEW s \in Seeds, Refused(s) \/ Fails(s) \/ Ends(s)
      PROVE  SeedTypeOK'
  <2> PICK how \in {"refused", "failed", "done"} : Stops(s, how)
    BY <1>5, RunsStop
  <2>1. seeded' \in BOOLEAN
    BY <1>5, RunsStop DEF SeedTypeOK
  <2> QED
    BY <2>1 DEF Stops, settings, tableVars, readerVars, SeedTypeOK
<1>6. ASSUME AdministratorsWrite
      PROVE  SeedTypeOK'
  <2> DEFINE Deletes == \E rows \in SUBSET Ids : Delete(rows)
  <2>0. \/ Deletes
        \/ /\ parentId' = parentId \/ MoveUnder \/ \E i \in MenuIds : MoveToRoot(i)
           /\ permissionId' = permissionId /\ links' \subseteq links
    <3>1. ASSUME RemoveMenu PROVE Deletes
      <4>1. Below(pending.option) \in SUBSET Ids
        BY OptionKeys DEF Below, Options
      <4> QED
        BY <3>1, <4>1 DEF RemoveMenu
    <3>2. ASSUME NEW i \in Ids, DeleteRight(i) PROVE Deletes
      <4>1. {i} \in SUBSET Ids
        OBVIOUS
      <4> QED
        BY <3>2, <4>1 DEF DeleteRight
    <3> HIDE DEF Deletes
    <3> QED
      BY <1>6, <3>1, <3>2
         DEF AdministratorsWrite, Rename, Unassign, SwitchOff, MoveToRoot, MoveUnder, Options
  <2>1. name' \in [Ids -> Keys \cup Aliases \cup {"unborn", "gone"}]
    <3>1. name \in [Ids -> Keys \cup Aliases \cup {"unborn", "gone"}]
      BY DEF SeedTypeOK
    <3> QED
      BY <1>6, <3>1, AdministratorsName, NamesOfRows
  <2>2. active' \in [Ids -> BOOLEAN]
    <3>1. active \in [Ids -> BOOLEAN]
      BY DEF SeedTypeOK
    <3>2. active' = active \/ \E i \in Ids : active' = [active EXCEPT ![i] = FALSE]
      BY <1>6
      DEF AdministratorsWrite, Rename, DeleteRight, Unassign, SwitchOff, MoveToRoot, MoveUnder,
          RemoveMenu
    <3> QED
      BY <3>1, <3>2
  <2>3. links' \subseteq Ids \X Ids
    BY <2>0 DEF Delete, SeedTypeOK
  <2>4. permissionId' \in [MenuIds -> Ids \cup {NoId}]
    BY <2>0 DEF Delete, SeedTypeOK
  <2>5. parentId' \in [MenuIds -> MenuIds \cup {NoId}]
    <3>1. parentId \in [MenuIds -> MenuIds \cup {NoId}]
      BY DEF SeedTypeOK
    <3>2. ASSUME MoveUnder PROVE parentId' \in [MenuIds -> MenuIds \cup {NoId}]
      BY <3>1, <3>2 DEF MoveUnder, SeedTypeOK
    <3>3. ASSUME NEW i \in MenuIds, MoveToRoot(i)
          PROVE  parentId' \in [MenuIds -> MenuIds \cup {NoId}]
      BY <3>1, <3>3 DEF MoveToRoot
    <3>4. ASSUME Deletes PROVE parentId' \in [MenuIds -> MenuIds \cup {NoId}]
      BY <3>1, <3>4 DEF Delete
    <3> QED
      BY <2>0, <3>1, <3>2, <3>3, <3>4
  <2>6. outdated' \in BOOLEAN
    BY <1>6 DEF AdministratorsWrite, Rename, DeleteRight, Unassign, SwitchOff, MoveToRoot,
                MoveUnder, RemoveMenu, Edit, SeedTypeOK
  <2>7. bereft' \subseteq Seeds
    BY <1>6, AdministratorsName DEF Running, SeedTypeOK
  <2>8. /\ pending' \in [do : {"none", "move", "remove"}, option : MenuIds \cup {NoId},
                       under : MenuIds \cup {NoId}, at : MenuIds \cup {NoId}]
        /\ edits' \in 0..MaxEdits
    BY <1>6, AdministratorsEdit, SeedingAssumption DEF NoRequest, SeedTypeOK
  <2> QED
    BY <1>6, <2>1, <2>2, <2>3, <2>4, <2>5, <2>6, <2>7, <2>8, AdministratorsEdit
       DEF settings, runVars, readerVars, Running, SeedTypeOK
<1>8. ASSUME AdministratorsRead
      PROVE  SeedTypeOK'
  <2> DEFINE Requests == [do : {"none", "move", "remove"}, option : MenuIds \cup {NoId},
                          under : MenuIds \cup {NoId}, at : MenuIds \cup {NoId}]
  <2>1. pending' \in Requests
    <3>1. ASSUME WalkUp PROVE pending' \in Requests
      <4>1. pending \in Requests /\ parentId[pending.at] \in MenuIds \cup {NoId}
        BY <3>1 DEF WalkUp, SeedTypeOK
      <4> QED
        BY <3>1, <4>1 DEF WalkUp
    <3>2. ASSUME NEW i \in Options, AskRemoval(i) PROVE pending' \in Requests
      BY <3>2 DEF AskRemoval, Options
    <3>3. ASSUME NEW i \in Options, NEW p \in Options, AskMove(i, p) PROVE pending' \in Requests
      BY <3>3 DEF AskMove, Options
    <3>4. ASSUME Withdraw PROVE pending' \in Requests
      BY <3>4 DEF Withdraw, NoRequest
    <3> QED
      BY <1>8, <3>1, <3>2, <3>3, <3>4 DEF AdministratorsRead
  <2>2. outdated' \in BOOLEAN
    BY <1>8 DEF AdministratorsRead, AskMove, AskRemoval, WalkUp, Withdraw, SeedTypeOK
  <2>3. edits' \in 0..MaxEdits
    BY <1>8, AdministratorsLook, SeedingAssumption DEF SeedTypeOK
  <2> QED
    BY <1>8, <2>1, <2>2, <2>3, AdministratorsLook
       DEF settings, tableVars, runVars, readerVars, SeedTypeOK
<1>7. ASSUME NEW r \in Readers, Read(r)
      PROVE  SeedTypeOK'
  <2>1. stage' \in [Readers -> {"idle", "default", "requested", "items", "names", "answered",
                               "unavailable", "refused"}]
    BY <1>7
    DEF Read, Ask, ReadDefault, NoDefault, ReadRequested, NoLanguage, ReadItem, NameItem,
                Advance, SeedTypeOK
  <2>2. locale' \in [Readers -> Languages \cup {"any"}] /\ informed' \subseteq Readers
    <3>1. locale \in [Readers -> Languages \cup {"any"}] /\ informed \subseteq Readers
      BY DEF SeedTypeOK
    <3>2. /\ \/ locale' = locale
             \/ \E l \in Locales : locale' = [locale EXCEPT ![r] = l]
          /\ informed' \subseteq informed \cup {r}
      BY <1>7
      DEF Read, Ask, ReadDefault, NoDefault, ReadRequested, NoLanguage, ReadItem, NameItem,
          Reads, historyVars
    <3> QED
      BY <3>1, <3>2, SeedingAssumption DEF Languages
  <2>3. /\ default' \in [Readers -> Ids \cup {NoId}]
        /\ requested' \in [Readers -> Ids \cup {NoId}]
    <3>1. /\ default \in [Readers -> Ids \cup {NoId}]
          /\ requested \in [Readers -> Ids \cup {NoId}]
      BY DEF SeedTypeOK
    <3>2. default' = default \/ \E i \in Ids \cup {NoId} : default' = [default EXCEPT ![r] = i]
      BY <1>7
      DEF Read, Ask, ReadDefault, NoDefault, ReadRequested, NoLanguage, ReadItem, NameItem,
          Defaults, LanguageIds
    <3>3. \/ requested' = requested
          \/ \E i \in Ids \cup {NoId} : requested' = [requested EXCEPT ![r] = i]
      BY <1>7, <3>1
      DEF Read, Ask, ReadDefault, NoDefault, ReadRequested, NoLanguage, ReadItem, NameItem,
          Defaults, LanguageIds, Named
    <3> QED
      BY <3>1, <3>2, <3>3
  <2>4. item' \in [Readers -> Ids \cup {NoId}]
    BY <1>7
    DEF Read, Ask, ReadDefault, NoDefault, ReadRequested, NoLanguage, ReadItem, NameItem,
                Named, SeedTypeOK
  <2>5. named' \in [Readers -> Ids \cup {NoId}]
    BY <1>7
    DEF Read, Ask, ReadDefault, NoDefault, ReadRequested, NoLanguage, ReadItem, NameItem,
                SeedTypeOK
  <2> QED
    BY <1>7, <2>1, <2>2, <2>3, <2>4, <2>5, ReadersRead
    DEF settings, tableVars, runVars, SeedTypeOK
<1> QED
  BY <1>0, <1>1, <1>2, <1>3, <1>4, <1>5, <1>6, <1>7, <1>8 DEF SeedNext, Administrators

\* A run that puts adds no name that is there, and changes none.
LEMMA NamesStep ==
    ASSUME SeedingInvariant, [SeedNext]_seedVars
    PROVE  NamesUnique'
<1> USE DEF SeedingInvariant
<1>0. CASE name' = name
  BY <1>0 DEF NamesUnique, There
<1>1. ASSUME NEW s \in Seeds, PutRow(s)
      PROVE  NamesUnique'
  <2> PICK st, i : Putting(s, st, i)
    BY <1>1, PutRowPuts
  <2>1. /\ i \in Ids /\ Fits(i, st.key) /\ name' = [name EXCEPT ![i] = st.key]
        /\ name[i] = st.key \/ Named(st.key) = {}
    BY DEF Putting
  <2>2. \A j \in Ids : name[j] = st.key => j = i
    <3>1. st.key \notin {"unborn", "gone"}
      BY DEF Putting, Shape, Keys, Languages, Items, MenuKeys, Permissions, Roles
    <3> QED
      BY <2>1, <3>1, NoIdAssumption DEF NamesUnique, There, Named
  <2> QED
    BY <2>1, <2>2 DEF NamesUnique, There, SeedTypeOK
<1>2. CASE AdministratorsWrite
  <2>1. ASSUME NEW rows \in SUBSET Ids,
               name' = [i \in Ids |-> IF i \in rows THEN "gone" ELSE name[i]]
        PROVE  NamesUnique'
    BY <2>1 DEF NamesUnique, There
  <2>2. ASSUME NEW i \in Ids, NEW k \in NamesFor(i), Named(k) = {}, name' = [name EXCEPT ![i] = k]
        PROVE  NamesUnique'
    BY <2>2 DEF NamesUnique, Fits, There, Named, SeedTypeOK
  <2> QED
    BY <1>0, <1>2, <2>1, <2>2, AdministratorsName
<1>3. ASSUME NEW s \in Seeds,
             Begin(s) \/ JoinRows(s) \/ ClearDefaults(s) \/ Refused(s) \/ Fails(s) \/ Ends(s)
      PROVE  name' = name
  BY <1>3 DEF Begin, JoinRows, ClearDefaults, Refused, Fails, Ends, Stops, tableVars
<1>4. ASSUME NEW r \in Readers, Read(r)
      PROVE  name' = name
  BY <1>4, ReadersRead DEF tableVars
<1>5. ASSUME AdministratorsRead
      PROVE  name' = name
  BY <1>5, AdministratorsLook DEF tableVars
<1> QED
  BY <1>0, <1>1, <1>2, <1>3, <1>4, <1>5 DEF SeedNext, Administrators, seedVars, tableVars

\* Every step keeps what the runs know of their rows.
LEMMA IdsStep ==
    ASSUME SeedingInvariant, [SeedNext]_seedVars
    PROVE  RunsKeepIds'
<1> USE DEF SeedingInvariant
<1> SUFFICES ASSUME NEW t \in Seeds
             PROVE  /\ state'[t] # "running" => next'[t] = 1 /\ \A k \in Keys : got'[t][k] = NoId
                    /\ \A k \in Keys :
                        /\ got'[t][k] # NoId => Fits(got'[t][k], k)
                        /\ got'[t][k] # NoId <=> Earlier(next[t], k)'
                        /\ (state'[t] \in {"idle", "running"} /\ got'[t][k] = NoId)
                             => name'[<<k, t>>] = "unborn"
  BY DEF RunsKeepIds
<1> DEFINE Kept == /\ state'[t] # "running" => next'[t] = 1 /\ \A k \in Keys : got'[t][k] = NoId
                   /\ \A k \in Keys :
                       /\ got'[t][k] # NoId => Fits(got'[t][k], k)
                       /\ got'[t][k] # NoId <=> Earlier(next[t], k)'
                       /\ (state'[t] \in {"idle", "running"} /\ got'[t][k] = NoId)
                            => name'[<<k, t>>] = "unborn"
<1>0. ASSUME settings' = settings, state'[t] = state[t], next'[t] = next[t], got'[t] = got[t],
             \A k \in Keys : name[<<k, t>>] = "unborn" => name'[<<k, t>>] = "unborn"
      PROVE  Kept
  <2>1. Script' = Script
    BY <1>0, ScriptStays
  <2>2. \A k : Earlier(next[t], k)' <=> Earlier(next[t], k)
    BY <1>0, <2>1 DEF Earlier, Puts, Steps
  <2> QED
    BY <1>0, <2>2 DEF RunsKeepIds
<1>1. ASSUME NEW s \in Seeds, Begin(s)
      PROVE  Kept
  <2>1. /\ settings' = settings /\ next' = next /\ got' = got /\ name' = name
        /\ state[s] = "idle" /\ state' = [state EXCEPT ![s] = "running"]
    BY <1>1 DEF Begin, tableVars
  <2>2. Script' = Script
    BY <2>1, ScriptStays
  <2>3. \A k : Earlier(next[t], k)' <=> Earlier(next[t], k)
    BY <2>1, <2>2 DEF Earlier, Puts, Steps
  <2> QED
    BY <2>1, <2>3 DEF RunsKeepIds, SeedTypeOK
<1>2. ASSUME NEW s \in Seeds, PutRow(s)
      PROVE  Kept
  <2> PICK st, i : Putting(s, st, i)
    BY <1>2, PutRowPuts
  <2>1. /\ i \in Ids /\ Fits(i, st.key) /\ name' = [name EXCEPT ![i] = st.key]
        /\ name[i] = st.key \/ i = <<st.key, s>>
        /\ state' = state /\ next' = [next EXCEPT ![s] = @ + 1] /\ settings' = settings
        /\ got' = [got EXCEPT ![s][st.key] = i] /\ st.key \in Keys /\ i # NoId
        /\ state[s] = "running"
    BY NoIdAssumption DEF Putting, Shape
  <2>2. CASE t # s
    <3>1. \A k \in Keys : name[<<k, t>>] = "unborn" => <<k, t>> # i
      <4>1. st.key # "unborn"
        BY <2>1 DEF Keys, Languages, Items, MenuKeys, Permissions, Roles
      <4> QED
        BY <2>1, <2>2, <4>1
    <3>2. \A k \in Keys : name[<<k, t>>] = "unborn" => name'[<<k, t>>] = "unborn"
      BY <2>1, <3>1 DEF SeedTypeOK, Ids
    <3>3. state'[t] = state[t] /\ next'[t] = next[t] /\ got'[t] = got[t]
      BY <2>1, <2>2 DEF SeedTypeOK
    <3> QED
      BY <1>0, <2>1, <3>2, <3>3
  <2>3. CASE t = s
    <3>1. next'[s] = next[s] + 1 /\ next[s] \in Steps /\ next[s] \in Nat /\ Puts(next[s], st.key)
      BY <2>1 DEF Putting, Puts, SeedTypeOK
    <3>2. Script' = Script
      BY <2>1, ScriptStays
    <3>3. \A k : Earlier(next[s], k)' <=> (Earlier(next[s], k) \/ k = st.key)
      BY <3>1, <3>2 DEF Earlier, Puts, Steps
    <3>4. \A k \in Keys : got'[s][k] = IF k = st.key THEN i ELSE got[s][k]
      BY <2>1 DEF SeedTypeOK
    <3>5. \A k \in Keys : k # st.key /\ name[<<k, s>>] = "unborn" => name'[<<k, s>>] = "unborn"
      <4>1. \A k \in Keys : k # st.key /\ name[<<k, s>>] = "unborn" => <<k, s>> # i
        BY <2>1, NamesOfRows
      <4> QED
        BY <2>1, <4>1 DEF SeedTypeOK, Ids
    <3>6. \A k \in Keys : got'[s][k] # NoId => Fits(got'[s][k], k)
      <4>1. \A k \in Keys : got[s][k] # NoId => Fits(got[s][k], k)
        BY DEF RunsKeepIds
      <4> QED
        BY <2>1, <3>4, <4>1
    <3>7. \A k \in Keys : got'[s][k] # NoId <=> Earlier(next[s], k)'
      <4>1. \A k \in Keys : got[s][k] # NoId <=> Earlier(next[s], k)
        BY <2>1 DEF RunsKeepIds
      <4> QED
        BY <2>1, <3>3, <3>4, <4>1
    <3>8. \A k \in Keys : got'[s][k] = NoId => k # st.key /\ name[<<k, s>>] = "unborn"
      BY <2>1, <3>4 DEF RunsKeepIds
    <3> QED
      BY <2>1, <2>3, <3>5, <3>6, <3>7, <3>8
  <2> QED
    BY <2>2, <2>3
<1>3. ASSUME NEW s \in Seeds, JoinRows(s) \/ ClearDefaults(s)
      PROVE  Kept
  <2>1. /\ name' = name /\ settings' = settings /\ state' = state /\ got' = got
        /\ state[s] = "running" /\ next' = [next EXCEPT ![s] = @ + 1]
        /\ next[s] \in Steps /\ Script[next[s]].do # "row"
    BY <1>3, ScriptLength DEF JoinRows, ClearDefaults, Turn, Statement, Done, SeedTypeOK, Steps
  <2>2. Script' = Script
    BY <2>1, ScriptStays
  <2>3. \A k : Earlier(next[t], k)' <=> Earlier(next[t], k)
    <3>1. \A k : ~ Puts(next[s], k)
      BY <2>1 DEF Puts
    <3>2. CASE t # s
      <4>1. next'[t] = next[t]
        BY <2>1, <3>2 DEF SeedTypeOK
      <4> QED
        BY <2>2, <4>1 DEF Earlier, Puts, Steps
    <3>3. CASE t = s
      <4>1. next'[t] = next[s] + 1 /\ next[s] \in Nat
        BY <2>1, <3>3 DEF SeedTypeOK
      <4>2. \A m \in Steps : m < next'[t] <=> (m < next[t] \/ m = next[s])
        BY <3>3, <4>1 DEF Steps
      <4> QED
        BY <2>2, <3>1, <4>2 DEF Earlier, Puts, Steps
    <3> QED
      BY <3>2, <3>3
  <2> QED
    BY <2>1, <2>3 DEF RunsKeepIds, SeedTypeOK
<1>4. ASSUME NEW s \in Seeds, Refused(s) \/ Fails(s) \/ Ends(s)
      PROVE  Kept
  <2> PICK how \in {"refused", "failed", "done"} : Stops(s, how)
    BY <1>4, RunsStop
  <2>1. CASE t = s
    <3>1. /\ state'[s] = how /\ next'[s] = 1 /\ \A k \in Keys : got'[s][k] = NoId
      BY DEF Stops, SeedTypeOK
    <3>2. \A k : ~ Earlier(next[t], k)'
      BY <2>1, <3>1 DEF Earlier, Steps
    <3> QED
      BY <2>1, <3>1, <3>2
  <2>2. CASE t # s
    BY <1>0, <2>2 DEF Stops, tableVars, SeedTypeOK
  <2> QED
    BY <2>1, <2>2
<1>5. CASE AdministratorsWrite
  <2>1. settings' = settings /\ runVars' = runVars
    BY <1>5, AdministratorsEdit
  <2>2. \A k \in Keys : name[<<k, t>>] = "unborn" => name'[<<k, t>>] = "unborn"
    <3> TAKE k \in Keys
    <3>1. <<k, t>> \in Ids
      BY DEF Ids
    <3> QED
      BY <1>5, <3>1, AdministratorsName DEF There, SeedTypeOK
  <2> QED
    BY <1>0, <2>1, <2>2 DEF runVars
<1>6. ASSUME NEW r \in Readers, Read(r)
      PROVE  Kept
  BY <1>0, <1>6, ReadersRead DEF runVars, tableVars
<1>7. CASE UNCHANGED seedVars
  BY <1>0, <1>7 DEF seedVars, runVars, tableVars
<1>8. CASE AdministratorsRead
  BY <1>0, <1>8, AdministratorsLook DEF runVars, tableVars
<1> QED
  BY <1>1, <1>2, <1>3, <1>4, <1>5, <1>6, <1>7, <1>8 DEF SeedNext, Administrators

\* The runs that overlap are disturbed together.
LEMMA DisturbedStep ==
    ASSUME SeedingInvariant, [SeedNext]_seedVars
    PROVE  DisturbedTogether'
<1> USE DEF SeedingInvariant
<1>0. ASSUME section' = section, disturbed' = disturbed, state' = state, bereft' = bereft,
             section = "catalogs" => pending' = pending
      PROVE  DisturbedTogether'
  BY <1>0 DEF DisturbedTogether, Running
<1>1. ASSUME NEW s \in Seeds, Begin(s)
      PROVE  DisturbedTogether'
  BY <1>1 DEF Begin, DisturbedTogether, Running, SeedTypeOK, settings
<1>2. ASSUME NEW s \in Seeds, Refused(s) \/ Fails(s) \/ Ends(s)
      PROVE  DisturbedTogether'
  <2> PICK how \in {"refused", "failed", "done"} : Stops(s, how)
    BY <1>2, RunsStop
  <2>1. Running' = Running \ {s}
    BY <1>2, RunsStop DEF Stops, Running, SeedTypeOK
  <2> QED
    BY <2>1 DEF Stops, DisturbedTogether, settings
<1>3. CASE AdministratorsWrite
  <2>1. Running' = Running /\ section' = section
    BY <1>3, AdministratorsEdit DEF Running, runVars, settings
  <2> QED
    BY <1>3, <2>1, AdministratorsEdit DEF DisturbedTogether
<1>4. ASSUME NEW s \in Seeds, PutRow(s) \/ JoinRows(s) \/ ClearDefaults(s)
      PROVE  DisturbedTogether'
  BY <1>0, <1>4 DEF PutRow, JoinRows, ClearDefaults, Done, settings, historyVars
<1>5. ASSUME NEW r \in Readers, Read(r)
      PROVE  DisturbedTogether'
  BY <1>0, <1>5, ReadersRead DEF runVars, settings
<1>6. CASE UNCHANGED seedVars
  BY <1>0, <1>6 DEF seedVars, settings, runVars, historyVars
<1>7. CASE AdministratorsRead
  BY <1>0, <1>7, AdministratorsLook DEF runVars, settings
<1> QED
  BY <1>1, <1>2, <1>3, <1>4, <1>5, <1>6, <1>7 DEF SeedNext, Administrators

\* What the runs hold stands.
LEMMA StandStep ==
    ASSUME SeedingInvariant, [SeedNext]_seedVars
    PROVE  IdsStand'
<1> USE DEF SeedingInvariant
<1> SUFFICES ASSUME NEW t \in Seeds, state'[t] = "running", NEW k \in Keys, got'[t][k] # NoId
             PROVE  /\ t \notin bereft' => There(got[t][k])'
                    /\ disturbed' = {} => name'[got'[t][k]] = k
  BY DEF IdsStand, Running
<1> DEFINE Stands == /\ t \notin bereft' => There(got[t][k])'
                     /\ disturbed' = {} => name'[got'[t][k]] = k
<1>0. ASSUME state[t] = "running", got'[t] = got[t], name' = name,
             t \notin bereft' => t \notin bereft, disturbed' = {} => disturbed = {}
      PROVE  Stands
  <2>1. t \in Running
    BY <1>0 DEF Running
  <2> QED
    BY <1>0, <2>1 DEF IdsStand, There
<1>1. ASSUME NEW s \in Seeds, Begin(s)
      PROVE  Stands
  <2>1. CASE t = s
    BY <1>1, <2>1 DEF Begin, RunsKeepIds
  <2>2. CASE t # s
    BY <1>0, <1>1, <2>2 DEF Begin, tableVars, SeedTypeOK
  <2> QED
    BY <2>1, <2>2
<1>2. ASSUME NEW s \in Seeds, PutRow(s)
      PROVE  Stands
  <2> PICK st, i : Putting(s, st, i)
    BY <1>2, PutRowPuts
  <2>1. /\ i \in Ids /\ name[i] \in {st.key, "unborn"} /\ name' = [name EXCEPT ![i] = st.key]
        /\ st.key \in Keys /\ state' = state /\ got' = [got EXCEPT ![s][st.key] = i]
        /\ disturbed' = disturbed /\ bereft' = bereft /\ t \in Running
    BY DEF Putting, Shape, historyVars, Running
  <2>2. st.key \notin {"unborn", "gone"}
    BY <2>1 DEF Keys, Languages, Items, MenuKeys, Permissions, Roles
  <2>3. There(i)' /\ name'[i] = st.key
    BY <2>1, <2>2, NoIdAssumption DEF There, SeedTypeOK
  <2>4. CASE t = s /\ k = st.key
    <3>1. got'[t][k] = i
      BY <2>1, <2>4 DEF SeedTypeOK
    <3> QED
      BY <2>3, <2>4, <3>1 DEF There
  <2>5. CASE ~ (t = s /\ k = st.key)
    <3>1. got'[t][k] = got[t][k]
      BY <2>1, <2>5 DEF SeedTypeOK
    <3> DEFINE x == got[t][k]
    <3>2. /\ x \in Ids
          /\ t \notin bereft => There(x)
          /\ disturbed = {} => name[x] = k
      BY <2>1, <3>1, IdHeld DEF IdsStand
    <3>3. CASE x = i
      BY <2>1, <2>3, <3>1, <3>2, <3>3, NamesOfRows DEF There
    <3>4. CASE x # i
      <4>1. name'[x] = name[x]
        BY <2>1, <3>2, <3>4 DEF SeedTypeOK
      <4> QED
        BY <2>1, <3>1, <3>2, <4>1 DEF There
    <3> QED
      BY <3>3, <3>4
  <2> QED
    BY <2>4, <2>5
<1>3. ASSUME NEW s \in Seeds, JoinRows(s) \/ ClearDefaults(s)
      PROVE  Stands
  BY <1>0, <1>3 DEF JoinRows, ClearDefaults, Done, historyVars
<1>4. ASSUME NEW s \in Seeds, Refused(s) \/ Fails(s) \/ Ends(s)
      PROVE  Stands
  <2> PICK how \in {"refused", "failed", "done"} : Stops(s, how)
    BY <1>4, RunsStop
  <2>1. t # s /\ state[t] = "running"
    BY DEF Stops, SeedTypeOK
  <2>2. disturbed' = {} => disturbed = {}
    BY <2>1 DEF Stops, DisturbedTogether, Running
  <2> QED
    BY <1>0, <2>1, <2>2 DEF Stops, tableVars, SeedTypeOK
<1>5. CASE AdministratorsWrite
  <2>1. /\ runVars' = runVars /\ disturbed' = disturbed \cup Running
    BY <1>5, AdministratorsEdit
  <2>2. t \in Running /\ got' = got /\ got[t][k] \in Ids
    BY <2>1 DEF Running, runVars, SeedTypeOK
  <2>3. disturbed' # {}
    BY <2>1, <2>2
  <2>4. t \notin bereft => There(got[t][k])
    BY <2>2 DEF IdsStand
  <2>5. CASE name' = name /\ bereft' = bereft
    BY <2>2, <2>3, <2>4, <2>5 DEF There
  <2>6. ASSUME bereft' = bereft \cup Running
        PROVE  Stands
    BY <2>2, <2>3, <2>6
  <2>7. ASSUME NEW i \in Ids, NEW j \in NamesFor(i), name' = [name EXCEPT ![i] = j],
               bereft' = bereft
        PROVE  Stands
    BY <2>2, <2>3, <2>4, <2>7, NamesOfRows DEF There, SeedTypeOK
  <2> QED
    BY <1>5, <2>5, <2>6, <2>7, AdministratorsName
<1>6. ASSUME NEW r \in Readers, Read(r)
      PROVE  Stands
  BY <1>0, <1>6, ReadersRead DEF runVars, tableVars
<1>7. CASE UNCHANGED seedVars
  BY <1>0, <1>7 DEF seedVars, runVars, tableVars, historyVars
<1>8. CASE AdministratorsRead
  BY <1>0, <1>8, AdministratorsLook DEF runVars, tableVars
<1> QED
  BY <1>1, <1>2, <1>3, <1>4, <1>5, <1>6, <1>7, <1>8 DEF SeedNext, Administrators

\* An option that run s puts: its parent afterwards, and that of the others.
LEMMA PutsOption ==
    ASSUME SeedingInvariant, NEW s \in Seeds, NEW st, NEW i \in MenuIds, Putting(s, st, i)
    PROVE  /\ st.key \in MenuKeys /\ name'[i] = st.key
           /\ \A m \in MenuIds \ {i} : parentId'[m] = parentId[m] /\ name'[m] = name[m]
           /\ st.key = "administration" => parentId'[i] = parentId[i]
           /\ st.key = "crm" => parentId'[i] = NoId
           /\ st.key = "crm-leads" => parentId'[i] = got[s]["crm"] /\ got[s]["crm"] # NoId
           /\ st.key = "users" => parentId'[i] = got[s]["administration"]
           /\ Options' = Options \cup {i}
<1> USE DEF SeedingInvariant
<1>1. st.key \in MenuKeys /\ i \in Ids
  BY OptionKeys, KindsFit DEF Putting, Shape
<1>2. /\ name' = [name EXCEPT ![i] = st.key]
      /\ parentId' = [parentId EXCEPT ![i] = Reference(s, st.parentId, @)]
  BY DEF Putting
<1>3. /\ name'[i] = st.key /\ parentId'[i] = Reference(s, st.parentId, parentId[i])
      /\ \A m \in MenuIds \ {i} : parentId'[m] = parentId[m] /\ name'[m] = name[m]
  BY <1>1, <1>2, OptionKeys DEF SeedTypeOK
<1>4. /\ st.key = "administration" => st.parentId = "kept"
      /\ st.key = "crm" => st.parentId = "root"
      /\ st.key = "crm-leads" => st.parentId = "crm" /\ got[s]["crm"] # NoId
      /\ st.key = "users" => st.parentId = "administration"
  BY DEF Putting, Shape
<1>5. Options' = Options \cup {i}
  <2>1. There(i)'
    BY <1>1, <1>3, OptionKeys, NamesOfRows DEF There, MenuKeys
  <2> QED
    BY <1>3, <2>1 DEF Options, There
<1> QED
  BY <1>1, <1>3, <1>4, <1>5 DEF Reference

\* Every step leaves the options where the seed looks for them.
LEMMA OptionsStep ==
    ASSUME SeedingInvariant, [SeedNext]_seedVars
    PROVE  OptionsPlaced'
<1> USE DEF SeedingInvariant
<1>0. ASSUME parentId' = parentId, disturbed' = {} => disturbed = {},
             \A m \in MenuIds : name'[m] = "unborn" => name[m] = "unborn",
             \A s \in Seeds : (state'[s] = "running" /\ got'[s]["crm"] # NoId)
                                => state[s] = "running" /\ got'[s]["crm"] = got[s]["crm"]
      PROVE  OptionsPlaced'
  BY <1>0 DEF OptionsPlaced, Running
<1>1. ASSUME NEW s \in Seeds, Begin(s)
      PROVE  OptionsPlaced'
  <2>1. \A t \in Seeds : (state'[t] = "running" /\ got'[t]["crm"] # NoId) => state[t] = "running"
    BY <1>1 DEF Begin, RunsKeepIds, SeedTypeOK, Keys, MenuKeys
  <2> QED
    BY <1>0, <1>1, <2>1 DEF Begin, tableVars
<1>2. ASSUME NEW s \in Seeds, PutRow(s)
      PROVE  OptionsPlaced'
  <2> PICK st, i : Putting(s, st, i)
    BY <1>2, PutRowPuts
  <2>1. /\ i \in Ids /\ Fits(i, st.key) /\ st.key \in Keys /\ name' = [name EXCEPT ![i] = st.key]
        /\ name[i] \in {st.key, "unborn"}
        /\ s \in Running /\ state' = state /\ got' = [got EXCEPT ![s][st.key] = i]
        /\ disturbed' = disturbed /\ "crm" \in Keys /\ "crm" \in MenuKeys
    BY DEF Putting, Shape, historyVars, Running, Keys, MenuKeys
  <2>2. CASE i \notin MenuIds
    <3>1. parentId' = parentId /\ \A m \in MenuIds : name'[m] = name[m]
      BY <2>1, <2>2, OptionKeys DEF Putting, SeedTypeOK
    <3>2. st.key # "crm"
      BY <2>1, <2>2, KindsFit
    <3>3. \A t \in Seeds : got'[t]["crm"] = got[t]["crm"]
      BY <2>1, <3>2 DEF SeedTypeOK
    <3> QED
      BY <1>0, <2>1, <3>1, <3>3
  <2>3. CASE i \in MenuIds
    <3>1. /\ \A m \in MenuIds \ {i} : parentId'[m] = parentId[m] /\ name'[m] = name[m]
          /\ name'[i] # "unborn"
          /\ st.key = "crm" => parentId'[i] = NoId
      BY <2>1, <2>3, PutsOption, NamesOfRows
    <3>2. \A m \in MenuIds : name'[m] = "unborn" => parentId'[m] = NoId
      BY <3>1 DEF OptionsPlaced
    <3>3. ASSUME disturbed = {}, NEW t \in Running, got'[t]["crm"] # NoId
          PROVE  parentId'[got'[t]["crm"]] = NoId
      <4>1. CASE t = s /\ st.key = "crm"
        <5>1. got'[t]["crm"] = i
          BY <2>1, <4>1 DEF SeedTypeOK
        <5> QED
          BY <3>1, <4>1, <5>1
      <4>2. CASE ~ (t = s /\ st.key = "crm")
        <5>1. got'[t]["crm"] = got[t]["crm"] /\ t \in Seeds
          BY <2>1, <4>2 DEF SeedTypeOK, Running
        <5>2. /\ got[t]["crm"] \in MenuIds /\ name[got[t]["crm"]] = "crm"
              /\ parentId[got[t]["crm"]] = NoId
          BY <2>1, <3>3, <5>1, IdHeld, KindsFit DEF IdsStand, OptionsPlaced
        <5>3. CASE got[t]["crm"] = i
          BY <2>1, <3>1, <5>1, <5>2, <5>3, NamesOfRows
        <5>4. CASE got[t]["crm"] # i
          BY <3>1, <5>1, <5>2, <5>4
        <5> QED
          BY <5>3, <5>4
      <4> QED
        BY <4>1, <4>2
    <3> QED
      BY <2>1, <3>2, <3>3 DEF OptionsPlaced, Running
  <2> QED
    BY <2>2, <2>3
<1>3. ASSUME NEW s \in Seeds, JoinRows(s) \/ ClearDefaults(s)
      PROVE  OptionsPlaced'
  BY <1>0, <1>3 DEF JoinRows, ClearDefaults, Done, historyVars
<1>4. ASSUME NEW s \in Seeds, Refused(s) \/ Fails(s) \/ Ends(s)
      PROVE  OptionsPlaced'
  <2> PICK how \in {"refused", "failed", "done"} : Stops(s, how)
    BY <1>4, RunsStop
  <2>1. \A t \in Seeds : state'[t] = "running" => state[t] = "running" /\ got'[t] = got[t]
    BY DEF Stops, SeedTypeOK
  <2>2. parentId' = parentId /\ name' = name /\ disturbed' = disturbed \ {s}
    BY DEF Stops, tableVars
  <2>3. CASE disturbed' = {} /\ disturbed # {}
    <3>1. Running' = {}
      BY <2>1, <2>2, <2>3 DEF DisturbedTogether, Running, Stops, SeedTypeOK
    <3> QED
      BY <2>2, <3>1 DEF OptionsPlaced
  <2> QED
    BY <1>0, <2>1, <2>2, <2>3
<1>5. CASE AdministratorsWrite
  <2>1. runVars' = runVars /\ disturbed' = disturbed \cup Running
    BY <1>5, AdministratorsEdit
  <2>2. \A m \in MenuIds : name'[m] = "unborn" => name[m] = "unborn"
    BY <1>5, AdministratorsName, NamesOfRows, OptionKeys DEF SeedTypeOK
  <2>3. \A m \in MenuIds : parentId'[m] \in {parentId[m], NoId} \/ There(m)
    <3>1. CASE MoveUnder
      BY <3>1 DEF MoveUnder, SeedTypeOK
    <3>2. ASSUME NEW i \in Ids, MoveToRoot(i)
          PROVE  \A m \in MenuIds : parentId'[m] \in {parentId[m], NoId}
      BY <3>2 DEF MoveToRoot, SeedTypeOK
    <3>3. ASSUME NEW rows, Delete(rows)
          PROVE  \A m \in MenuIds : parentId'[m] \in {parentId[m], NoId}
      BY <3>3 DEF Delete
    <3>4. ASSUME parentId' = parentId
          PROVE  \A m \in MenuIds : parentId'[m] \in {parentId[m], NoId}
      BY <3>4
    <3> QED
      BY <1>5, <3>1, <3>2, <3>3, <3>4
         DEF AdministratorsWrite, Rename, DeleteRight, Unassign, SwitchOff, RemoveMenu
  <2>4. \A m \in MenuIds : name'[m] = "unborn" => parentId'[m] = NoId
    BY <2>2, <2>3 DEF OptionsPlaced, There
  <2>5. disturbed' = {} => Running' = {}
    BY <2>1 DEF Running, runVars
  <2> QED
    BY <2>4, <2>5 DEF OptionsPlaced
<1>6. ASSUME NEW r \in Readers, Read(r)
      PROVE  OptionsPlaced'
  BY <1>0, <1>6, ReadersRead DEF runVars, tableVars
<1>7. CASE UNCHANGED seedVars
  BY <1>0, <1>7 DEF seedVars, runVars, tableVars, historyVars
<1>8. CASE AdministratorsRead
  BY <1>0, <1>8, AdministratorsLook DEF runVars, tableVars
<1> QED
  BY <1>1, <1>2, <1>3, <1>4, <1>5, <1>6, <1>7, <1>8 DEF SeedNext, Administrators

\* The walk of a move is not misled by statements that move nothing.
LEMMA WalkStep ==
    ASSUME SeedingInvariant, [SeedNext]_seedVars
    PROVE  Walked'
<1> USE DEF SeedingInvariant
<1>0. ASSUME pending' = pending, outdated' = outdated, parentId' = parentId, name' = name
      PROVE  Walked'
  BY <1>0 DEF Walked, Options, There
<1>1. ASSUME NEW s \in Seeds, PutRow(s)
      PROVE  Walked'
  <2> PICK st, i : Putting(s, st, i)
    BY <1>1, PutRowPuts
  <2>1. /\ pending' = pending
        /\ outdated' = (outdated \/ (pending.do = "move" /\ parentId' # parentId))
        /\ i \in Ids /\ name' = [name EXCEPT ![i] = st.key]
        /\ name[i] \in {st.key, "unborn"}
    BY DEF Putting
  <2>2. CASE i \notin MenuIds
    <3>1. parentId' = parentId /\ Options' = Options
      <4>1. parentId' = parentId /\ \A m \in MenuIds : name'[m] = name[m]
        BY <2>1, <2>2, OptionKeys DEF Putting, SeedTypeOK
      <4> QED
        BY <4>1 DEF Options, There
    <3> QED
      BY <2>1, <3>1 DEF Walked, SeedTypeOK
  <2>3. CASE i \in MenuIds
    <3>1. Options' = Options \cup {i}
      BY <2>3, PutsOption
    <3>2. SUFFICES ASSUME pending.do = "move", ~ outdated, parentId' = parentId,
                          NEW S \in SUBSET (Options \cup {i}), pending.under \in S,
                          \A m \in S \ {pending.option} : parentId[m] \in S
                   PROVE  pending.at \in S
      BY <2>1, <3>1 DEF Walked
    <3>3. CASE S \subseteq Options
      BY <3>2, <3>3 DEF Walked
    <3>4. CASE i \in S /\ i \notin Options
      <4>1. name[i] = "unborn" /\ i # pending.option
        <5>1. st.key \in Keys
          BY DEF Putting, Shape
        <5> QED
          BY <2>1, <2>3, <3>2, <3>4, <5>1, NamesOfRows, OptionKeys DEF Options, There, Walked
      <4>2. parentId[i] = NoId /\ parentId[i] \in S
        BY <2>3, <3>2, <3>4, <4>1 DEF OptionsPlaced
      <4> QED
        BY <2>3, <4>2, OptionKeys DEF Options
    <3> QED
      BY <3>3, <3>4
  <2> QED
    BY <2>2, <2>3
<1>2. ASSUME NEW s \in Seeds,
             Begin(s) \/ JoinRows(s) \/ ClearDefaults(s) \/ Refused(s) \/ Fails(s) \/ Ends(s)
      PROVE  Walked'
  BY <1>0, <1>2 DEF Begin, JoinRows, ClearDefaults, Done, Refused, Fails, Ends, Stops, tableVars
<1>3. CASE AdministratorsWrite
  BY <1>3, AdministratorsEdit DEF Walked, NoRequest
<1>4. ASSUME NEW i \in Options, NEW p \in Options, AskMove(i, p)
      PROVE  Walked'
  <2>1. /\ pending'.do = "move" /\ pending'.option = i /\ pending'.under = p /\ pending'.at = p
        /\ p # i /\ parentId' = parentId /\ name' = name
    BY <1>4 DEF AskMove, Reading, tableVars
  <2> QED
    BY <2>1 DEF Walked, Options, There
<1>5. ASSUME WalkUp
      PROVE  Walked'
  <2>1. /\ pending.do = "move" /\ pending.at # NoId /\ parentId[pending.at] # pending.option
        /\ pending' = [pending EXCEPT !.at = parentId[@]] /\ outdated' = outdated
        /\ parentId' = parentId /\ name' = name
    BY <1>5 DEF WalkUp, Reading, tableVars
  <2>2. /\ pending'.do = "move" /\ pending'.option = pending.option
        /\ pending'.under = pending.under /\ pending'.at = parentId[pending.at]
    BY <2>1 DEF SeedTypeOK
  <2>3. Options' = Options
    BY <2>1 DEF Options, There
  <2> QED
    BY <2>1, <2>2, <2>3 DEF Walked
<1>6. ASSUME Withdraw \/ \E i \in Options : AskRemoval(i)
      PROVE  Walked'
  BY <1>6 DEF Withdraw, AskRemoval, NoRequest, Walked
<1>7. ASSUME NEW r \in Readers, Read(r)
      PROVE  Walked'
  BY <1>0, <1>7, ReadersRead DEF tableVars
<1>8. CASE UNCHANGED seedVars
  BY <1>0, <1>8 DEF seedVars, tableVars
<1> QED
  BY <1>1, <1>2, <1>3, <1>4, <1>5, <1>6, <1>7, <1>8
     DEF SeedNext, Administrators, AdministratorsRead

-----------------------------------------------------------------------------
(* What the statements bring about.                                        *)

\* Statements of the list, as values: the list is the same all the time.
LEMMA StatementShape ==
    ASSUME SeedTypeOK, NEW st \in {Script[n] : n \in Steps}
    PROVE  Shape(st)
BY ScriptShape DEF SeedTypeOK

\* A key is put by one statement only.
LEMMA KeysDiffer ==
    ASSUME SeedTypeOK, NEW st \in {Script[n] : n \in Steps}, NEW su \in {Script[n] : n \in Steps},
           st.do = "row", su.do = "row", st.key = su.key
    PROVE  st = su
<1> PICK n \in Steps, m \in Steps : st = Script[n] /\ su = Script[m]
  OBVIOUS
<1>1. Puts(n, st.key) /\ Puts(m, st.key)
  BY DEF Puts
<1>2. m = n
  BY <1>1, ScriptOrder DEF SeedTypeOK
<1> QED
  BY <1>2

\* An upsert brings about what it stands for.
LEMMA PutBrings ==
    ASSUME SeedingInvariant, disturbed = {}, NEW s \in Seeds, NEW st, NEW i, Putting(s, st, i)
    PROVE  Holds(st)'
<1> USE DEF SeedingInvariant
<1>1. /\ i \in Ids /\ Fits(i, st.key) /\ st.key \in Keys /\ st.do = "row" /\ Shape(st)
      /\ name' = [name EXCEPT ![i] = st.key] /\ s \in Running
      /\ name[i] = st.key \/ name[i] = "unborn"
  BY DEF Putting, Shape, Running
<1>2. i \in Named(st.key)'
  <2>1. name \in [Ids -> Keys \cup Aliases \cup {"unborn", "gone"}]
    BY DEF SeedTypeOK
  <2> QED
    BY <1>1, <2>1 DEF Named
<1>3. active'[i] \/ ~ st.wakes
  <2>1. active \in [Ids -> BOOLEAN] /\ active' = [active EXCEPT ![i] = @ \/ st.wakes]
    BY DEF Putting, SeedTypeOK
  <2> QED
    BY <1>1, <2>1
<1>4. st.default # "kept" => (isDefault'[i] <=> st.default = "yes")
  <2>1. st.default # "kept" => i \in LanguageIds
    BY <1>1, KindsFit DEF Shape
  <2>2. st.default # "kept" => isDefault' = [isDefault EXCEPT ![i] = st.default = "yes"]
    BY DEF Putting
  <2>3. isDefault \in [LanguageIds -> BOOLEAN]
    BY DEF SeedTypeOK
  <2> QED
    BY <2>1, <2>2, <2>3
<1>5. ASSUME NEW r \in {st.parentId, st.permissionId} \ {"kept", "root"}
      PROVE  got[s][r] \in Named(r)'
  <2>1. r \in Keys /\ got[s][r] # NoId
    BY <1>5 DEF Putting
  <2>2. got[s][r] \in Ids /\ name[got[s][r]] = r
    BY <1>1, <2>1, IdHeld DEF IdsStand
  <2> QED
    BY <1>1, <2>1, <2>2, NamesOfRows DEF Named, SeedTypeOK
<1>6. ASSUME st.parentId # "kept" \/ st.permissionId # "kept"
      PROVE  /\ i \in MenuIds
             /\ parentId'[i] = Reference(s, st.parentId, parentId[i])
             /\ permissionId'[i] = Reference(s, st.permissionId, permissionId[i])
  <2>1. i \in MenuIds
    BY <1>1, <1>6, KindsFit DEF Shape
  <2> QED
    BY <2>1 DEF Putting, SeedTypeOK
<1>7. st.permissionId # "root"
  BY <1>1 DEF Shape, Permissions
<1>8. /\ st.parentId = "root" => parentId'[i] = NoId
      /\ st.parentId \notin {"kept", "root"} => parentId'[i] \in Named(st.parentId)'
      /\ st.permissionId # "kept" => permissionId'[i] \in Named(st.permissionId)'
  BY <1>5, <1>6, <1>7 DEF Reference
<1> QED
  BY <1>1, <1>2, <1>3, <1>4, <1>8 DEF Holds

\* A statement, repeated or of another run, undoes nothing.
LEMMA PutKeeps ==
    ASSUME SeedingInvariant, disturbed = {}, NEW s \in Seeds, NEW st, NEW i, Putting(s, st, i),
           NEW su \in {Script[n] : n \in Steps}, Holds(su)
    PROVE  Holds(su)'
<1> USE DEF SeedingInvariant
<1>1. /\ i \in Ids /\ Fits(i, st.key) /\ st.key \in Keys /\ st.do = "row" /\ Shape(st)
      /\ name' = [name EXCEPT ![i] = st.key] /\ st \in {Script[n] : n \in Steps}
      /\ name[i] = st.key \/ name[i] = "unborn"
      /\ links' = links
  BY DEF Putting, Shape
<1>2. Shape(su)
  BY StatementShape
<1>3. \A k \in Keys : Named(k) \subseteq Named(k)'
  <2>1. "unborn" \notin Keys
    BY DEF Keys, Languages, Items, MenuKeys, Permissions, Roles
  <2> QED
    BY <1>1, <2>1 DEF Named, SeedTypeOK
<1>4. CASE su.do = "row" /\ su.key = st.key
  BY <1>1, <1>4, KeysDiffer, PutBrings
<1>5. CASE su.do = "row" /\ su.key # st.key
  <2>1. PICK j \in Named(su.key) :
               /\ active[j] \/ ~ su.wakes
               /\ su.default # "kept" => (isDefault[j] <=> su.default = "yes")
               /\ su.parentId = "root" => parentId[j] = NoId
               /\ su.parentId \notin {"kept", "root"} => parentId[j] \in Named(su.parentId)
               /\ su.permissionId # "kept" => permissionId[j] \in Named(su.permissionId)
    BY <1>5 DEF Holds
  <2>2. su.key \in Keys /\ j \in Ids /\ name[j] = su.key /\ Fits(j, su.key)
    BY <1>2, <1>5, NameFits DEF Shape, Named
  <2>3. j # i
    BY <1>1, <1>5, <2>2, NamesOfRows
  <2>4. j \in Named(su.key)' /\ active'[j] = active[j]
    BY <1>3, <2>2, <2>3 DEF Putting, SeedTypeOK
  <2>5. su.default # "kept" => (isDefault'[j] <=> su.default = "yes")
    <3>1. su.default # "kept" => j \in LanguageIds
      BY <1>2, <1>5, <2>2, KindsFit DEF Shape
    <3>2. j \in LanguageIds => isDefault'[j] = isDefault[j]
      BY <2>3 DEF Putting, SeedTypeOK
    <3> QED
      BY <2>1, <3>1, <3>2
  <2>6. su.parentId # "kept" \/ su.permissionId # "kept" => parentId'[j] = parentId[j]
                                                         /\ permissionId'[j] = permissionId[j]
    <3>1. su.parentId # "kept" \/ su.permissionId # "kept" => j \in MenuIds
      BY <1>2, <1>5, <2>2, KindsFit DEF Shape
    <3>2. j \in MenuIds => parentId'[j] = parentId[j] /\ permissionId'[j] = permissionId[j]
      BY <2>3 DEF Putting, SeedTypeOK
    <3> QED
      BY <3>1, <3>2
  <2>7. /\ su.parentId \notin {"kept", "root"} => su.parentId \in Keys
        /\ su.permissionId # "kept" => su.permissionId \in Keys
    BY <1>2, <1>5 DEF Shape, Keys
  <2> QED
    BY <1>3, <1>5, <2>1, <2>4, <2>5, <2>6, <2>7 DEF Holds
<1>6. CASE su.do = "join"
  <2>1. su.a \in Keys /\ su.b \in Keys
    BY <1>2, <1>6 DEF Shape
  <2> QED
    BY <1>1, <1>3, <1>6, <2>1 DEF Holds
<1>7. CASE su.do = "clear"
  <2>1. \A d \in Defaults : name[d] = "es"
    BY <1>7 DEF Holds
  <2>2. ASSUME NEW d \in LanguageIds, There(d)', isDefault'[d], active'[d]
        PROVE  name'[d] = "es"
    <3>1. CASE d = i
      <4>1. st.key \in Languages
        BY <1>1, <3>1, KindsFit
      <4>2. st.key \in {"es", "en"}
        BY <1>1, <4>1 DEF Shape, Languages
      <4>3. st.key # "en"
        <5> SUFFICES ASSUME st.key = "en" PROVE FALSE
          OBVIOUS
        <5>1. st.default = "no"
          BY <1>1 DEF Shape
        <5>2. isDefault' = [isDefault EXCEPT ![i] = FALSE]
          BY <5>1 DEF Putting
        <5> QED
          BY <2>2, <3>1, <5>2 DEF SeedTypeOK
      <4> QED
        BY <1>1, <3>1, <4>2, <4>3 DEF SeedTypeOK
    <3>2. CASE d # i
      <4>1. name'[d] = name[d] /\ isDefault'[d] = isDefault[d] /\ active'[d] = active[d]
        BY <3>2 DEF Putting, SeedTypeOK, LanguageIds
      <4> QED
        BY <2>1, <2>2, <4>1 DEF Defaults, There
    <3> QED
      BY <3>1, <3>2
  <2> QED
    BY <1>7, <2>2 DEF Holds, Defaults
<1> QED
  BY <1>2, <1>4, <1>5, <1>6, <1>7 DEF Shape

\* So does the clearing of the default languages.
LEMMA ClearKeeps ==
    ASSUME SeedingInvariant, NEW s \in Seeds, ClearDefaults(s),
           NEW su \in {Script[n] : n \in Steps}, Holds(su) \/ su.do = "clear"
    PROVE  Holds(su)'
<1> USE DEF SeedingInvariant
<1>1. /\ isDefault' = [i \in LanguageIds |-> isDefault[i] /\ name[i] = "es"]
      /\ UNCHANGED <<name, active, parentId, permissionId, links>>
  BY DEF ClearDefaults
<1>2. Shape(su)
  BY StatementShape
<1>3. CASE su.do = "row"
  <2>1. PICK j \in Named(su.key) :
               /\ active[j] \/ ~ su.wakes
               /\ su.default # "kept" => (isDefault[j] <=> su.default = "yes")
               /\ su.parentId = "root" => parentId[j] = NoId
               /\ su.parentId \notin {"kept", "root"} => parentId[j] \in Named(su.parentId)
               /\ su.permissionId # "kept" => permissionId[j] \in Named(su.permissionId)
    BY <1>3 DEF Holds
  <2>2. su.key \in Keys /\ j \in Ids /\ name[j] = su.key /\ Fits(j, su.key)
    BY <1>2, <1>3, NameFits DEF Shape, Named
  <2>3. su.default # "kept" => j \in LanguageIds
    BY <1>2, <1>3, <2>2, KindsFit DEF Shape
  <2>4. su.default = "yes" => su.key = "es"
    BY <1>2, <1>3 DEF Shape, Languages
  <2>5. su.default # "kept" => (isDefault'[j] <=> su.default = "yes")
    BY <1>1, <2>1, <2>2, <2>3, <2>4 DEF SeedTypeOK
  <2> QED
    BY <1>1, <1>3, <2>1, <2>5 DEF Holds, Named
<1>4. CASE su.do = "join"
  BY <1>1, <1>4 DEF Holds, Named
<1>5. CASE su.do = "clear"
  BY <1>1, <1>5 DEF Holds, Defaults, There
<1> QED
  BY <1>2, <1>3, <1>4, <1>5 DEF Shape

\* A join, and what leaves the tables alone.
LEMMA FrameKeeps ==
    ASSUME NEW su, Holds(su), links \subseteq links',
           UNCHANGED <<name, active, isDefault, parentId, permissionId>>
    PROVE  Holds(su)'
BY DEF Holds, Named, Defaults, There

\* A join brings about its link and keeps the rest.
LEMMA JoinBrings ==
    ASSUME SeedingInvariant, disturbed = {}, NEW s \in Seeds, JoinRows(s), NEW st, st = Statement(s)
    PROVE  Holds(st)'
<1> USE DEF SeedingInvariant
<1>1. /\ s \in Running /\ next[s] \in Steps /\ st = Script[next[s]] /\ st.do = "join"
  BY ScriptLength DEF JoinRows, Turn, Statement, Running, SeedTypeOK, Steps
<1>2. st.a \in Keys /\ st.b \in Keys
  BY <1>1, StatementShape DEF Shape
<1>3. /\ There(got[s][st.a]) /\ There(got[s][st.b])
      /\ links' = links \cup {<<got[s][st.a], got[s][st.b]>>} /\ name' = name
  BY <1>1 DEF JoinRows, Needs
<1>4. ASSUME NEW k \in {st.a, st.b}
      PROVE  got[s][k] \in Named(k)
  <2>1. k \in Keys /\ got[s][k] # NoId
    BY <1>2, <1>3 DEF There
  <2>2. name[got[s][k]] = k
    BY <1>1, <2>1 DEF IdsStand
  <2> QED
    BY <2>1, <2>2, IdHeld DEF Named
<1>5. got[s][st.a] \in Named(st.a)' /\ got[s][st.b] \in Named(st.b)'
  BY <1>3, <1>4 DEF Named
<1> QED
  BY <1>1, <1>3, <1>5 DEF Holds

\* What happens beside the administrators' writes.
Undisturbing ==
    \/ \E s \in Seeds : \/ Begin(s) \/ PutRow(s) \/ JoinRows(s) \/ ClearDefaults(s)
                        \/ Refused(s) \/ Fails(s) \/ Ends(s)
    \/ AdministratorsRead \/ (\E r \in Readers : Read(r)) \/ UNCHANGED seedVars

\* The three kinds of statement and whatever else leaves the tables alone.
LEMMA UndisturbedStep ==
    ASSUME SeedingInvariant, disturbed = {}, Undisturbing,
           NEW su \in {Script[n] : n \in Steps}, Holds(su)
    PROVE  Holds(su)'
<1>1. ASSUME NEW s \in Seeds, PutRow(s)
      PROVE  Holds(su)'
  <2> PICK st, i : Putting(s, st, i)
    BY <1>1, PutRowPuts DEF SeedingInvariant
  <2> QED
    BY PutKeeps
<1>2. ASSUME NEW s \in Seeds, JoinRows(s)
      PROVE  Holds(su)'
  BY <1>2, FrameKeeps DEF JoinRows
<1>3. ASSUME NEW s \in Seeds, ClearDefaults(s)
      PROVE  Holds(su)'
  BY <1>3, ClearKeeps
<1>4. ASSUME NEW s \in Seeds, Begin(s) \/ Refused(s) \/ Fails(s) \/ Ends(s)
      PROVE  Holds(su)'
  BY <1>4, FrameKeeps DEF Begin, Refused, Fails, Ends, Stops, tableVars
<1>5. ASSUME NEW r \in Readers, Read(r)
      PROVE  Holds(su)'
  BY <1>5, ReadersRead, FrameKeeps DEF tableVars
<1>6. CASE UNCHANGED seedVars
  BY <1>6, FrameKeeps DEF seedVars, tableVars
<1>7. CASE AdministratorsRead
  BY <1>7, AdministratorsLook, FrameKeeps DEF SeedingInvariant, tableVars
<1> QED
  BY <1>1, <1>2, <1>3, <1>4, <1>5, <1>6, <1>7 DEF Undisturbing

\* What run s has made after a statement: this one besides.
LEMMA MadeGrows ==
    ASSUME SeedTypeOK, settings' = settings, NEW s \in Seeds, next[s] \in Steps,
           next' = [next EXCEPT ![s] = @ + 1]
    PROVE  /\ Made(s)' = Made(s) \cup {Script[next[s]]}
           /\ \A t \in Seeds \ {s} : Made(t)' = Made(t)
<1>1. Script' = Script
  BY ScriptStays
<1>2. next'[s] = next[s] + 1 /\ \A t \in Seeds \ {s} : next'[t] = next[t]
  BY DEF SeedTypeOK
<1>3. {m \in Steps : m < next[s] + 1} = {m \in Steps : m < next[s]} \cup {next[s]}
  BY DEF Steps
<1> QED
  BY <1>1, <1>2, <1>3 DEF Made, Steps

\* Every step keeps what the runs have brought about.
LEMMA StatementsStep ==
    ASSUME SeedingInvariant, [SeedNext]_seedVars
    PROVE  StatementsStand'
<1> USE DEF SeedingInvariant
<1> DEFINE List == {Script[n] : n \in Steps}
           Runs == disturbed' = {} => \A t \in Running' : \A st \in Made(t)' : Holds(st)'
           Seed == section' = "catalogs" /\ seeded' => \A st \in List' : Holds(st)'
<1>1. settings' = settings /\ List' = List
  <2>1. settings' = settings
    BY AdministratorsEdit, AdministratorsLook, ReadersRead
       DEF SeedNext, Administrators, seedVars, Begin, PutRow, JoinRows, ClearDefaults, Done,
           Refused, Fails, Ends, Stops
  <2> QED
    BY <2>1, ScriptStays DEF Steps
<1>2. \A t \in Seeds : Made(t) \subseteq List
  BY DEF Made
<1>3. section' = "catalogs" => section = "catalogs" /\ disturbed = {} /\ Undisturbing
  <2>1. section' = "catalogs" => ~ AdministratorsWrite
    BY AdministratorsEdit DEF settings
  <2> QED
    BY <1>1, <2>1 DEF settings, DisturbedTogether, SeedNext, Administrators, Undisturbing
<1>4. ASSUME seeded' = seeded PROVE Seed
  <2>1. section' = "catalogs" /\ seeded' => \A st \in List : Holds(st)'
    BY <1>3, <1>4, UndisturbedStep DEF StatementsStand
  <2> QED
    BY <1>1, <2>1
<1>5. ASSUME disturbed = {}, Undisturbing, Running' \subseteq Running,
             \A t \in Running' : Made(t)' = Made(t)
      PROVE  Runs
  BY <1>2, <1>5, UndisturbedStep DEF StatementsStand, Running
<1>6. ASSUME NEW s \in Seeds, Begin(s)
      PROVE  Runs /\ seeded' = seeded
  <2>1. Made(s)' = {}
    BY <1>6 DEF Begin, Made, Steps, RunsKeepIds
  <2>2. /\ Running' = Running \cup {s} /\ \A t \in Seeds : Made(t)' = Made(t)
        /\ disturbed' = {} => disturbed = {}
    <3>1. state' = [state EXCEPT ![s] = "running"] /\ next' = next /\ Script' = Script
      BY <1>1, <1>6, ScriptStays DEF Begin
    <3>2. Running' = Running \cup {s}
      BY <3>1 DEF Running, SeedTypeOK
    <3>3. \A t \in Seeds : Made(t)' = Made(t)
      BY <3>1 DEF Made, Steps
    <3>4. disturbed' = {} => disturbed = {}
      BY <1>6 DEF Begin
    <3> QED
      BY <3>2, <3>3, <3>4
  <2>3. Undisturbing
    BY <1>6 DEF Undisturbing
  <2> QED
    BY <1>2, <1>6, <2>1, <2>2, <2>3, UndisturbedStep DEF StatementsStand, Running, Begin
<1>7. ASSUME NEW s \in Seeds, PutRow(s) \/ JoinRows(s) \/ ClearDefaults(s)
      PROVE  Runs /\ seeded' = seeded
  <2>1. /\ s \in Running /\ next[s] \in Steps /\ next' = [next EXCEPT ![s] = @ + 1]
        /\ UNCHANGED <<state, disturbed, seeded>>
    BY <1>7, ScriptLength DEF PutRow, JoinRows, ClearDefaults, Turn, Done, historyVars, Running,
                              SeedTypeOK, Steps
  <2>2. Undisturbing
    BY <1>7 DEF Undisturbing
  <2>3. /\ Made(s)' = Made(s) \cup {Script[next[s]]} /\ Running' = Running
        /\ \A t \in Seeds \ {s} : Made(t)' = Made(t)
    BY <1>1, <2>1, MadeGrows DEF Running
  <2> PICK st : st = Script[next[s]]
    OBVIOUS
  <2>4. ASSUME disturbed = {} PROVE Holds(st)'
    <3>1. ASSUME PutRow(s) PROVE Holds(st)'
      <4> PICK su, i : Putting(s, su, i)
        BY <3>1, PutRowPuts
      <4>1. su = st
        BY DEF Putting
      <4> QED
        BY <2>4, <4>1, PutBrings
    <3>2. ASSUME JoinRows(s) PROVE Holds(st)'
      BY <2>4, <3>2, JoinBrings DEF Statement
    <3>3. ASSUME ClearDefaults(s) PROVE Holds(st)'
      BY <2>1, <3>3, ClearKeeps DEF ClearDefaults, Turn, Statement
    <3> QED
      BY <1>7, <3>1, <3>2, <3>3
  <2>5. ASSUME disturbed = {}, NEW t \in Running, NEW su \in Made(t) PROVE Holds(su)'
    BY <1>2, <2>2, <2>5, UndisturbedStep DEF StatementsStand, Running
  <2> QED
    BY <2>1, <2>3, <2>4, <2>5 DEF Running
<1>8. ASSUME NEW s \in Seeds, Refused(s) \/ Fails(s) \/ Ends(s)
      PROVE  Runs /\ Seed
  <2> PICK how \in {"refused", "failed", "done"} : Stops(s, how)
    BY <1>8, RunsStop
  <2>1. /\ s \in Running /\ Running' = Running \ {s} /\ disturbed' = disturbed \ {s}
    BY <1>8, RunsStop DEF Stops, Running, SeedTypeOK
  <2>2. Undisturbing
    BY <1>8 DEF Undisturbing
  <2>3. \A t \in Running' : Made(t)' = Made(t)
    BY <1>1, <2>1, ScriptStays DEF Stops, Running, Made, Steps, SeedTypeOK
  <2>4. Runs
    <3>1. CASE disturbed = {}
      BY <1>5, <2>1, <2>2, <2>3, <3>1
    <3>2. CASE disturbed # {} /\ disturbed' = {}
      <4>1. Running' = {}
        BY <2>1, <3>2 DEF DisturbedTogether
      <4> QED
        BY <4>1
    <3> QED
      BY <3>1, <3>2
  <2>5. ASSUME seeded' # seeded PROVE Seed
    <3>1. Len(Script) \in Nat /\ next[s] > Len(Script)
      BY <1>8, <2>5, RunsStop, ScriptLength DEF SeedTypeOK
    <3>2. Made(s) = List
      BY <3>1 DEF Made, Steps, SeedTypeOK
    <3>3. section' = "catalogs" => \A st \in List : Holds(st)'
      BY <1>3, <2>1, <3>2, UndisturbedStep DEF StatementsStand
    <3> QED
      BY <1>1, <3>3
  <2> QED
    BY <1>4, <2>4, <2>5
<1>9. CASE AdministratorsWrite
  <2>1. Runs
    BY <1>9, AdministratorsEdit DEF Running, runVars
  <2> QED
    BY <1>4, <1>9, <2>1, AdministratorsEdit DEF StatementsStand
<1>10. ASSUME NEW r \in Readers, Read(r)
       PROVE  Runs /\ seeded' = seeded
  <2>1. UNCHANGED <<state, next, disturbed, seeded>>
    BY <1>10, ReadersRead DEF runVars
  <2>2. Undisturbing
    BY <1>10 DEF Undisturbing
  <2>3. Running' = Running /\ \A t \in Seeds : Made(t)' = Made(t)
    BY <1>1, <2>1, ScriptStays DEF Running, Made, Steps
  <2> QED
    BY <1>5, <2>1, <2>2, <2>3 DEF Running
<1>11. CASE AdministratorsRead \/ UNCHANGED seedVars
  <2>1. UNCHANGED <<state, next, disturbed, seeded>>
    BY <1>11, AdministratorsLook DEF seedVars, runVars, historyVars
  <2>2. Undisturbing
    BY <1>11 DEF Undisturbing
  <2>3. Running' = Running /\ \A t \in Seeds : Made(t)' = Made(t)
    BY <1>1, <2>1, ScriptStays DEF Running, Made, Steps
  <2> QED
    BY <1>4, <1>5, <2>1, <2>2, <2>3 DEF Running, StatementsStand
<1> QED
  BY <1>4, <1>6, <1>7, <1>8, <1>9, <1>10, <1>11 DEF SeedNext, Administrators, StatementsStand

\* What the catalogues are like after a run.
LEMMA AfterSeed ==
    ASSUME SeedingInvariant, section = "catalogs", seeded
    PROVE  /\ Defaults # {} /\ \A d \in Defaults : name[d] = "es"
           /\ \A k \in Items, l \in {"es", "en"} :
                 \A i \in Named(k), j \in Named(l) : <<i, j>> \in links
<1> USE DEF SeedingInvariant
<1>1. \A n \in 1..10 : Script[n] \in {Script[m] : m \in Steps}
  BY CatalogsList DEF Steps
<1>2. \A n \in 1..10 : Holds(Script[n])
  BY <1>1 DEF StatementsStand
<1>3. Defaults # {}
  <2> DEFINE st == Upsert("es", "kept", "kept", "yes")
  <2>1. Holds(st)
    BY <1>2, CatalogsList
  <2>2. PICK d \in Named("es") : active[d] /\ isDefault[d]
    BY <2>1 DEF Holds, Upsert
  <2>3. d \in LanguageIds /\ name[d] = "es"
    BY NameFits, KindsFit DEF Named, Keys, Languages
  <2> QED
    BY <2>2, <2>3, NoIdAssumption DEF Defaults, LanguageIds, There
<1>4. \A d \in Defaults : name[d] = "es"
  <2>1. Holds([do |-> "clear"])
    BY <1>2, CatalogsList
  <2> QED
    BY <2>1 DEF Holds
<1>5. ASSUME NEW k \in Items, NEW l \in {"es", "en"}, NEW i \in Named(k), NEW j \in Named(l)
      PROVE  <<i, j>> \in links
  <2>1. Holds(Join(k, l))
    BY <1>2, CatalogsList DEF Items
  <2>2. PICK a \in Named(k), b \in Named(l) : <<a, b>> \in links
    BY <2>1 DEF Holds, Join
  <2>3. k \notin {"unborn", "gone"} /\ l \notin {"unborn", "gone"}
    BY DEF Items
  <2>4. a = i /\ b = j
    BY <2>3, NoIdAssumption DEF Named, NamesUnique, There
  <2> QED
    BY <2>2, <2>4
<1> QED
  BY <1>3, <1>4, <1>5

\* In the catalogues no name is lost.
LEMMA NamesGrow ==
    ASSUME SeedingInvariant, [SeedNext]_seedVars, section = "catalogs", NEW k \in Keys
    PROVE  Named(k) \subseteq Named(k)'
<1> USE DEF SeedingInvariant
<1>1. ASSUME NEW s \in Seeds, PutRow(s)
      PROVE  Named(k) \subseteq Named(k)'
  <2> PICK st, i : Putting(s, st, i)
    BY <1>1, PutRowPuts
  <2>1. k # "unborn"
    BY DEF Keys, Languages, Items, MenuKeys, Permissions, Roles
  <2> QED
    BY <2>1 DEF Putting, Named, SeedTypeOK
<1>2. ASSUME NEW s \in Seeds,
             Begin(s) \/ JoinRows(s) \/ ClearDefaults(s) \/ Refused(s) \/ Fails(s) \/ Ends(s)
      PROVE  name' = name
  BY <1>2 DEF Begin, JoinRows, ClearDefaults, Refused, Fails, Ends, Stops, tableVars
<1>3. ASSUME NEW r \in Readers, Read(r)
      PROVE  name' = name
  BY <1>3, ReadersRead DEF tableVars
<1>4. ~ AdministratorsWrite /\ ~ AdministratorsRead
  BY AdministratorsEdit, AdministratorsLook
<1> QED
  BY <1>1, <1>2, <1>3, <1>4 DEF SeedNext, Administrators, seedVars, tableVars, Named

\* A request asks, reads the default language, the language requested, an item
\* and its names, and finds what the runs of the seed have brought about.
LEMMA ReadersStep ==
    ASSUME SeedingInvariant, [SeedNext]_seedVars
    PROVE  ReadersInformed' /\ NamesAfterSeed'
<1> USE DEF SeedingInvariant
<1> SUFFICES ASSUME NEW r \in informed'
             PROVE  /\ section' = "catalogs" /\ seeded' /\ stage'[r] # "idle"
                    /\ stage'[r] \in {"requested", "items", "names"} => default'[r] \in Named("es")'
                    /\ stage'[r] \in {"items", "names"} =>
                          requested'[r] \in Named(IF locale[r] = "any" THEN "es" ELSE locale[r])'
                    /\ stage'[r] = "names" => item'[r] \in Named("option")' \cup Named("stage")'
                    /\ stage'[r] # "unavailable"
                    /\ stage'[r] = "answered" => named'[r] # NoId
                    /\ (stage'[r] = "answered" /\ locale'[r] \in {"es", "en"})
                          => named'[r] \in Named(locale[r])'
  BY DEF ReadersInformed, NamesAfterSeed
<1> DEFINE Informed ==
                    /\ section' = "catalogs" /\ seeded' /\ stage'[r] # "idle"
                    /\ stage'[r] \in {"requested", "items", "names"} => default'[r] \in Named("es")'
                    /\ stage'[r] \in {"items", "names"} =>
                          requested'[r] \in Named(IF locale[r] = "any" THEN "es" ELSE locale[r])'
                    /\ stage'[r] = "names" => item'[r] \in Named("option")' \cup Named("stage")'
                    /\ stage'[r] # "unavailable"
                    /\ stage'[r] = "answered" => named'[r] # NoId
                    /\ (stage'[r] = "answered" /\ locale'[r] \in {"es", "en"})
                          => named'[r] \in Named(locale[r])'
<1> HIDE DEF Informed
<1>1. {"es", "option", "stage"} \subseteq Keys /\ {"es", "en"} \subseteq Keys
  BY DEF Keys, Languages, Items
<1>2. ASSUME r \in informed, section' = section, seeded => seeded', stage'[r] = stage[r],
             locale'[r] = locale[r], default'[r] = default[r], requested'[r] = requested[r],
             item'[r] = item[r], named'[r] = named[r]
      PROVE  Informed
  <2>1. section = "catalogs" /\ r \in Readers
    BY <1>2 DEF ReadersInformed, SeedTypeOK
  <2>2. \A k \in {"es", "option", "stage", locale[r]} : k # "any" => Named(k) \subseteq Named(k)'
    BY <1>1, <2>1, NamesGrow DEF SeedTypeOK, Keys
  <2> QED
    BY <1>2, <2>1, <2>2 DEF Informed, ReadersInformed, NamesAfterSeed
<1>3. ASSUME UNCHANGED readerVars, informed' = informed, section' = section, seeded => seeded'
      PROVE  Informed
  BY <1>2, <1>3 DEF readerVars
<1>4. ASSUME NEW s \in Seeds, Begin(s) \/ PutRow(s) \/ JoinRows(s) \/ ClearDefaults(s)
                                \/ Refused(s) \/ Fails(s) \/ Ends(s)
      PROVE  Informed
  BY <1>3, <1>4
     DEF Begin, PutRow, JoinRows, ClearDefaults, Done, Refused, Fails, Ends, Stops, historyVars,
         settings
<1>5. ASSUME Administrators PROVE Informed
  BY <1>3, <1>5, AdministratorsEdit, AdministratorsLook DEF Administrators, settings, Informed
<1>6. ASSUME UNCHANGED seedVars PROVE Informed
  BY <1>3, <1>6 DEF seedVars, settings, historyVars, Informed
<1>7. ASSUME NEW q \in Readers, Read(q), q # r
      PROVE  Informed
  <2>1. r \in informed
    BY <1>7
    DEF Read, Ask, ReadDefault, NoDefault, ReadRequested, NoLanguage, ReadItem, NameItem,
                Reads, historyVars
  <2>2. /\ stage'[r] = stage[r] /\ locale'[r] = locale[r] /\ default'[r] = default[r]
        /\ requested'[r] = requested[r]
    BY <1>7, <2>1 DEF Read, Ask, ReadDefault, NoDefault, ReadRequested, NoLanguage, ReadItem,
                      NameItem, Reads, Advance, SeedTypeOK
  <2>3. item'[r] = item[r] /\ named'[r] = named[r]
    BY <1>7, <2>1 DEF Read, Ask, ReadDefault, NoDefault, ReadRequested, NoLanguage, ReadItem,
                      NameItem, SeedTypeOK
  <2> QED
    BY <1>2, <1>7, <2>1, <2>2, <2>3, ReadersRead DEF settings
<1>8. ASSUME r \in Readers, NEW l \in Locales, Ask(r, l)
      PROVE  Informed
  <2>1. seeded /\ seeded' = seeded
    BY <1>8 DEF Ask, ReadersInformed
  <2> QED
    BY <1>8, <2>1 DEF Ask, Advance, settings, Informed, SeedTypeOK
<1>9. ASSUME r \in Readers, Read(r), \A l \in Locales : ~ Ask(r, l)
      PROVE  Informed
  <2>1. /\ r \in informed /\ UNCHANGED <<section, seeded, name, locale>>
    BY <1>9
    DEF Read, ReadDefault, NoDefault, ReadRequested, NoLanguage, ReadItem, NameItem, Reads,
                historyVars, settings, tableVars
  <2>2. section = "catalogs" /\ seeded
    BY <2>1 DEF ReadersInformed
  <2>3. \A k : Named(k)' = Named(k)
    BY <2>1 DEF Named
  <2>4. ASSUME ReadDefault(r) PROVE Informed
    <3>1. PICK l \in Defaults : /\ default' = [default EXCEPT ![r] = l]
                                /\ requested' = [requested EXCEPT ![r] = l]
      BY <2>4 DEF ReadDefault
    <3>2. l \in Named("es")
      BY <2>2, AfterSeed DEF Named, Defaults, LanguageIds
    <3>3. stage'[r] = IF locale[r] = "any" THEN "items" ELSE "requested"
      BY <1>9, <2>4 DEF ReadDefault, Advance, SeedTypeOK
    <3>4. default'[r] = l /\ requested'[r] = l
      BY <1>9, <3>1 DEF SeedTypeOK
    <3> QED
      BY <2>1, <2>2, <2>3, <3>2, <3>3, <3>4 DEF Informed
  <2>5. ~ NoDefault(r)
    BY <2>2, AfterSeed DEF NoDefault
  <2>6. ASSUME ReadRequested(r) PROVE Informed
    <3>1. PICK l \in Named(locale[r]) : requested' = [requested EXCEPT ![r] = l]
      BY <2>6 DEF ReadRequested
    <3>2. locale[r] # "any"
      <4>1. "any" \notin Keys \cup Aliases \cup {"unborn", "gone"}
        BY DEF Keys, Languages, Items, MenuKeys, Permissions, Roles, Aliases
      <4>2. l \in Ids /\ name[l] = locale[r]
        BY <3>1 DEF Named
      <4> QED
        BY <4>1, <4>2 DEF SeedTypeOK
    <3>3. stage[r] = "requested" /\ stage'[r] = "items" /\ default' = default
      BY <1>9, <2>6 DEF ReadRequested, Advance, SeedTypeOK
    <3>4. requested'[r] = l
      BY <1>9, <3>1 DEF SeedTypeOK
    <3> QED
      BY <2>1, <2>2, <2>3, <3>1, <3>2, <3>3, <3>4 DEF Informed, ReadersInformed
  <2>7. ASSUME NoLanguage(r) PROVE Informed
    <3>1. stage'[r] = "refused"
      BY <1>9, <2>7 DEF NoLanguage, Advance, SeedTypeOK
    <3> QED
      BY <2>1, <2>2, <3>1 DEF Informed
  <2>8. ASSUME ReadItem(r) PROVE Informed
    <3>1. PICK i \in UNION {Named(k) : k \in Items} : item' = [item EXCEPT ![r] = i]
      BY <2>8 DEF ReadItem
    <3>2. stage[r] = "items" /\ stage'[r] = "names" /\ default' = default /\ requested' = requested
      BY <1>9, <2>8 DEF ReadItem, Advance, SeedTypeOK
    <3>3. item'[r] \in Named("option") \cup Named("stage")
      BY <1>9, <3>1 DEF SeedTypeOK, Items
    <3> QED
      BY <2>1, <2>2, <2>3, <3>2, <3>3 DEF Informed, ReadersInformed
  <2>9. ASSUME NameItem(r) PROVE Informed
    <3>1. stage[r] = "names" /\ stage'[r] = "answered"
      BY <1>9, <2>9 DEF NameItem, Advance, SeedTypeOK
    <3>2. /\ default[r] \in Named("es") /\ item[r] \in Named("option") \cup Named("stage")
          /\ requested[r] \in Named(IF locale[r] = "any" THEN "es" ELSE locale[r])
      BY <2>1, <3>1 DEF ReadersInformed
    <3>3. \A l \in {"es", "en"} : \A j \in Named(l) : <<item[r], j>> \in links
      BY <2>2, <3>2, AfterSeed DEF Items
    <3>4. default[r] \in Spoken(r)
      BY <3>2, <3>3 DEF Spoken
    <3>5. named'[r] = IF requested[r] \in Spoken(r) THEN requested[r] ELSE default[r]
      BY <1>9, <2>9, <3>4 DEF NameItem, SeedTypeOK
    <3>6. \A k : NoId \notin Named(k)
      BY NoIdAssumption DEF Named
    <3>7. named'[r] # NoId
      BY <3>2, <3>5, <3>6
    <3>8. locale[r] \in {"es", "en"} => named'[r] \in Named(locale[r])
      BY <3>2, <3>3, <3>5 DEF Spoken
    <3> QED
      BY <2>1, <2>2, <2>3, <3>1, <3>7, <3>8 DEF Informed
  <2> QED
    BY <1>9, <2>4, <2>5, <2>6, <2>7, <2>8, <2>9 DEF Read
<1>10. Informed
  <2>1. r \in Readers
    BY TypeStep DEF SeedTypeOK
  <2>2. ASSUME NEW q \in Readers, Read(q) PROVE Informed
    <3>1. CASE q # r
      BY <1>7, <2>2, <3>1
    <3>2. CASE q = r /\ \E l \in Locales : Ask(r, l)
      BY <1>8, <2>1, <3>2
    <3>3. CASE q = r /\ \A l \in Locales : ~ Ask(r, l)
      BY <1>9, <2>1, <2>2, <3>3
    <3> QED
      BY <3>1, <3>2, <3>3
  <2> QED
    BY <1>4, <1>5, <1>6, <2>2 DEF SeedNext
<1> QED
  BY <1>10 DEF Informed

-----------------------------------------------------------------------------
(* The theorems.                                                           *)

\* The rows that are there before the seed.
LEMMA OldRows ==
    ASSUME NEW had \in SUBSET {"pt"}, NEW x \in had \X {Old}
    PROVE  x = <<"pt", Old>>
<1>1. x[1] \in had /\ x = <<x[1], x[2]>> /\ x[2] = Old
  OBVIOUS
<1>2. x[1] = "pt"
  BY <1>1
<1> QED
  BY <1>1, <1>2

\* The invariant holds before the first run.
LEMMA SeedingInit == SeedInit => SeedingInvariant
<1> SUFFICES ASSUME SeedInit PROVE SeedingInvariant
  OBVIOUS
<1> PICK had \in SUBSET {"pt"}, first \in BOOLEAN :
          LET old == had \X {Old}
              option == <<"option", Old>>
          IN  /\ name = [i \in Ids |-> IF i \in old \/ (i = option /\ first) THEN i[1]
                                    ELSE "unborn"]
              /\ active = [i \in Ids |-> TRUE]
              /\ \E d \in old \cup {NoId} : isDefault = [i \in LanguageIds |-> i = d]
              /\ links = IF first THEN {<<option, l>> : l \in old} ELSE {}
  BY DEF SeedInit
<1> DEFINE old == had \X {Old}
           option == <<"option", Old>>
<1>1. /\ name = [i \in Ids |-> IF i \in old \/ (i = option /\ first) THEN i[1] ELSE "unborn"]
      /\ links = IF first THEN {<<option, l>> : l \in old} ELSE {}
      /\ active = [i \in Ids |-> TRUE]
      /\ \E d \in old \cup {NoId} : isDefault = [i \in LanguageIds |-> i = d]
  OBVIOUS
<1> HIDE DEF old, option
<1>11. section \in Sections /\ credentials \in BOOLEAN
  BY DEF SeedInit
<1>12. /\ parentId = [m \in MenuIds |-> NoId] /\ permissionId = [m \in MenuIds |-> NoId]
       /\ state = [s \in Seeds |-> "idle"] /\ next = [s \in Seeds |-> 1]
       /\ got = [s \in Seeds |-> [k \in Keys |-> NoId]]
  BY DEF SeedInit
<1>13. /\ stage = [r \in Readers |-> "idle"] /\ locale = [r \in Readers |-> "any"]
       /\ default = [r \in Readers |-> NoId] /\ requested = [r \in Readers |-> NoId]
       /\ item = [r \in Readers |-> NoId] /\ named = [r \in Readers |-> NoId]
  BY DEF SeedInit
<1>14. /\ pending = NoRequest /\ outdated = FALSE /\ edits = 0
       /\ disturbed = {} /\ bereft = {} /\ seeded = FALSE /\ informed = {}
  BY DEF SeedInit
<1>15. old \subseteq {<<"pt", Old>>} /\ option = <<"option", Old>>
  <2>1. \A x \in old : x = <<"pt", Old>>
    BY OldRows DEF old
  <2> QED
    BY <2>1 DEF option
<1>16. <<"pt", Old>> \in Ids /\ <<"option", Old>> \in Ids
  BY DEF Ids
<1>2. \A i \in Ids : i[1] \in Keys
  BY DEF Ids, Keys, Languages, Items
<1>3. name \in [Ids -> Keys \cup Aliases \cup {"unborn", "gone"}]
  BY <1>1, <1>2
<1>4. links \subseteq Ids \X Ids
  BY <1>1, <1>15, <1>16
<1>5. SeedTypeOK
  <2>1. MaxEdits \in Nat
    BY SeedingAssumption
  <2> QED
    <3>1. active \in [Ids -> BOOLEAN] /\ isDefault \in [LanguageIds -> BOOLEAN]
      BY <1>1
    <3>2. /\ parentId \in [MenuIds -> MenuIds \cup {NoId}]
          /\ permissionId \in [MenuIds -> Ids \cup {NoId}]
          /\ state \in [Seeds -> {"idle", "running", "done", "refused", "failed"}]
          /\ next \in [Seeds -> Nat \ {0}] /\ got \in [Seeds -> [Keys -> Ids \cup {NoId}]]
      BY <1>12
    <3>3. /\ stage \in [Readers -> {"idle", "default", "requested", "items", "names", "answered",
                                     "unavailable", "refused"}]
          /\ locale \in [Readers -> Languages \cup {"any"}]
      BY <1>13
    <3>4. /\ default \in [Readers -> Ids \cup {NoId}] /\ requested \in [Readers -> Ids \cup {NoId}]
          /\ item \in [Readers -> Ids \cup {NoId}] /\ named \in [Readers -> Ids \cup {NoId}]
      BY <1>13
    <3>5. /\ edits \in 0..MaxEdits /\ disturbed \subseteq Seeds /\ bereft \subseteq Seeds
          /\ informed \subseteq Readers
      BY <1>14, <2>1
    <3>7. seeded \in BOOLEAN
      BY <1>14
    <3>6. /\ pending \in [do : {"none", "move", "remove"}, option : MenuIds \cup {NoId},
                          under : MenuIds \cup {NoId}, at : MenuIds \cup {NoId}]
          /\ outdated \in BOOLEAN
      BY <1>14 DEF NoRequest
    <3> QED
      BY <1>3, <1>4, <1>11, <3>1, <3>2, <3>3, <3>4, <3>5, <3>6, <3>7 DEF SeedTypeOK
<1>6. NamesUnique
  <2>1. \A i \in Ids : name[i] \in {"unborn", i[1]}
    BY <1>1
  <2>2. \A i \in Ids : There(i) => i \in {<<"pt", Old>>, <<"option", Old>>} /\ name[i] = i[1]
    BY <1>1, <1>15 DEF There
  <2> QED
    BY <2>1, <2>2 DEF NamesUnique, Fits, There
<1>7. RunsKeepIds
  <2>1. \A s \in Seeds, k \in Keys : <<k, s>> \in Ids /\ name[<<k, s>>] = "unborn"
    BY <1>1, <1>15, SeedingAssumption DEF Ids
  <2>2. \A k : ~ Earlier(1, k)
    BY DEF Earlier, Steps
  <2> QED
    BY <1>12, <2>1, <2>2 DEF RunsKeepIds
<1>8. IdsStand /\ DisturbedTogether /\ StatementsStand
  BY <1>12, <1>14 DEF IdsStand, DisturbedTogether, StatementsStand, Running
<1>9. ReadersInformed /\ NamesAfterSeed
  BY <1>14 DEF ReadersInformed, NamesAfterSeed
<1>10. OptionsPlaced /\ Walked
  BY <1>12, <1>14 DEF OptionsPlaced, Walked, Running, NoRequest
<1> QED
  BY <1>5, <1>6, <1>7, <1>8, <1>9, <1>10 DEF SeedingInvariant

\* The invariant of runs, rows and readers, in every behaviour of the seed and
\* of those at work beside it.
THEOREM SeedingHolds == SeedSpec => []SeedingInvariant
<1>1. SeedingInvariant /\ [SeedNext]_seedVars => SeedingInvariant'
  <2> SUFFICES ASSUME SeedingInvariant, [SeedNext]_seedVars PROVE SeedingInvariant'
    OBVIOUS
  <2> QED
    BY TypeStep, NamesStep, IdsStep, StandStep, DisturbedStep, StatementsStep, ReadersStep,
       OptionsStep, WalkStep DEF SeedingInvariant
<1> QED
  BY <1>1, SeedingInit, PTL DEF SeedSpec

\* Every variable of the seed keeps its type; in particular an id that a run
\* holds or a row refers to is that of a row.
THEOREM SeedTypeCorrect == SeedSpec => []SeedTypeOK
<1>1. SeedingInvariant => SeedTypeOK
  BY DEF SeedingInvariant
<1> QED
  BY <1>1, SeedingHolds, PTL

\* Whatever the runs of the seed, the administrators and the readers do, a
\* request that comes after a run is named its items in its own language.
THEOREM NamesSafe == SeedSpec => []NamesAfterSeed
<1>1. SeedingInvariant => NamesAfterSeed
  BY DEF SeedingInvariant
<1> QED
  BY <1>1, SeedingHolds, PTL

\* An upsert closes no cycle, but through the option that the run takes for
\* "administration", unless administrators write beside it.
LEMMA PutCloses ==
    ASSUME SeedingInvariant, disturbed = {}, NEW s \in Seeds, NEW st, NEW i, Putting(s, st, i),
           NEW S \in SUBSET Options', Closed(S)', ~ (S \subseteq Options /\ Closed(S))
    PROVE  got[s]["administration"] \in S
<1> USE DEF SeedingInvariant
<1>1. /\ i \in Ids /\ name' = [name EXCEPT ![i] = st.key] /\ name[i] \in {st.key, "unborn"}
      /\ s \in Running
  BY DEF Putting, Running
<1>2. S # {} /\ \A m \in S : parentId'[m] \in S
  BY DEF Closed
<1>3. CASE i \notin MenuIds
  <2>1. parentId' = parentId /\ \A m \in MenuIds : name'[m] = name[m]
    BY <1>1, <1>3, OptionKeys DEF Putting, SeedTypeOK
  <2>2. Options' = Options
    BY <2>1 DEF Options, There
  <2> QED
    BY <1>2, <2>1, <2>2 DEF Closed
<1>4. CASE i \in MenuIds
  <2>1. /\ st.key \in MenuKeys /\ name'[i] = st.key
        /\ \A m \in MenuIds \ {i} : parentId'[m] = parentId[m]
        /\ st.key = "administration" => parentId'[i] = parentId[i]
        /\ st.key = "crm" => parentId'[i] = NoId
        /\ st.key = "crm-leads" => parentId'[i] = got[s]["crm"] /\ got[s]["crm"] # NoId
        /\ st.key = "users" => parentId'[i] = got[s]["administration"]
        /\ Options' = Options \cup {i}
    BY <1>4, PutsOption
  <2>2. S \subseteq MenuIds /\ NoId \notin S
    BY <1>4, <2>1, OptionKeys DEF Options
  <2>3. CASE i \notin S
    BY <1>2, <2>1, <2>2, <2>3 DEF Closed
  <2>4. CASE i \in S /\ st.key = "administration"
    <3>1. CASE i \in Options
      BY <1>2, <2>1, <2>2, <2>4, <3>1 DEF Closed
    <3>2. CASE i \notin Options
      <4>1. name[i] = "unborn"
        BY <1>1, <1>4, <2>4, <3>2, OptionKeys DEF Options, There
      <4>2. parentId'[i] = NoId
        BY <1>4, <2>1, <2>4, <4>1 DEF OptionsPlaced
      <4> QED
        BY <1>2, <2>2, <2>4, <4>2
    <3> QED
      BY <3>1, <3>2
  <2>5. CASE i \in S /\ st.key = "crm-leads"
    <3> DEFINE c == got[s]["crm"]
    <3>1. c \in S /\ c \in MenuIds
      BY <1>2, <2>1, <2>2, <2>5
    <3>2. name[c] = "crm" /\ parentId[c] = NoId
      BY <1>1, <2>1, <2>5 DEF IdsStand, OptionsPlaced, Keys, MenuKeys
    <3>3. c # i
      BY <1>1, <2>5, <3>2
    <3>4. parentId'[c] = NoId
      BY <2>1, <3>1, <3>2, <3>3
    <3> QED
      BY <1>2, <2>2, <3>1, <3>4
  <2> QED
    BY <1>2, <2>1, <2>2, <2>3, <2>4, <2>5 DEF MenuKeys
<1> QED
  BY <1>3, <1>4

\* A move whose walk no run has outdated closes no cycle.
LEMMA MoveCloses ==
    ASSUME SeedingInvariant, MoveUnder, ~ outdated,
           NEW S \in SUBSET Options', Closed(S)', ~ (S \subseteq Options /\ Closed(S))
    PROVE  FALSE
<1> USE DEF SeedingInvariant
<1>1. /\ pending.do = "move" /\ pending.at = NoId /\ name' = name
      /\ parentId' = [parentId EXCEPT ![pending.option] = pending.under]
  BY DEF MoveUnder
<1>2. Options' = Options /\ pending.option \in MenuIds
  BY <1>1 DEF Options, There, Walked
<1>3. /\ parentId'[pending.option] = pending.under
      /\ \A m \in MenuIds \ {pending.option} : parentId'[m] = parentId[m]
  BY <1>1, <1>2 DEF SeedTypeOK
<1>4. S \subseteq MenuIds /\ NoId \notin S /\ S # {} /\ \A m \in S : parentId'[m] \in S
  BY <1>2, OptionKeys DEF Options, Closed
<1>5. pending.option \in S
  BY <1>2, <1>3, <1>4 DEF Closed
<1>6. pending.under \in S /\ \A m \in S \ {pending.option} : parentId[m] \in S
  BY <1>3, <1>4, <1>5
<1> QED
  BY <1>1, <1>2, <1>4, <1>6 DEF Walked

\* What an administrator writes, moves apart, closes no cycle.
LEMMA OthersClose ==
    ASSUME SeedingInvariant, AdministratorsWrite, ~ MoveUnder,
           NEW S \in SUBSET Options', Closed(S)'
    PROVE  S \subseteq Options /\ Closed(S)
<1> USE DEF SeedingInvariant
<1>1. Options' \subseteq Options
  <2>1. ASSUME NEW m \in MenuIds, There(m)'
        PROVE  There(m)
    BY <2>1, AdministratorsName, OptionKeys DEF There, SeedTypeOK
  <2> QED
    BY <2>1 DEF Options
<1>2. S \subseteq MenuIds /\ NoId \notin S /\ S # {} /\ \A m \in S : parentId'[m] \in S
  BY <1>1, OptionKeys DEF Options, Closed
<1>3. \A m \in MenuIds : parentId'[m] \in {parentId[m], NoId}
  <2>1. ASSUME NEW i \in Ids, MoveToRoot(i)
        PROVE  \A m \in MenuIds : parentId'[m] \in {parentId[m], NoId}
    BY <2>1 DEF MoveToRoot, SeedTypeOK
  <2>2. ASSUME NEW rows, Delete(rows)
        PROVE  \A m \in MenuIds : parentId'[m] \in {parentId[m], NoId}
    BY <2>2 DEF Delete
  <2>3. ASSUME parentId' = parentId
        PROVE  \A m \in MenuIds : parentId'[m] \in {parentId[m], NoId}
    BY <2>3
  <2> QED
    BY <2>1, <2>2, <2>3
       DEF AdministratorsWrite, Rename, DeleteRight, Unassign, SwitchOff, RemoveMenu
<1> QED
  BY <1>1, <1>2, <1>3 DEF Closed

\* A cycle of menu options comes of a statement of the seed only through the
\* option that the run takes for "administration", or beside administrators
\* who write, and of an administrator's move only when a run has moved an
\* option since its walk began.
THEOREM CyclesSafe == SeedSpec => CyclesThroughAdministration
<1> DEFINE Attributed ==
        \A S \in SUBSET Options' :
          (Closed(S)' /\ ~ (S \subseteq Options /\ Closed(S)))
             => \/ \E s \in Seeds :
                      /\ next'[s] # next[s]
                      /\ s \in disturbed \/ got[s]["administration"] \in S
                \/ pending' # pending /\ outdated
<1>1. SeedingInvariant /\ [SeedNext]_seedVars => [Attributed]_<<name, parentId>>
  <2> SUFFICES ASSUME SeedingInvariant, [SeedNext]_seedVars, ~ UNCHANGED <<name, parentId>>,
                      NEW S \in SUBSET Options', Closed(S)', ~ (S \subseteq Options /\ Closed(S))
               PROVE  \/ \E s \in Seeds :
                            /\ next'[s] # next[s]
                            /\ s \in disturbed \/ got[s]["administration"] \in S
                      \/ pending' # pending /\ outdated
    BY Zenon
  <2> USE DEF SeedingInvariant
  <2>1. ASSUME NEW s \in Seeds, PutRow(s)
        PROVE  next'[s] # next[s] /\ (s \in disturbed \/ got[s]["administration"] \in S)
    <3> PICK st, i : Putting(s, st, i)
      BY <2>1, PutRowPuts
    <3>1. next' = [next EXCEPT ![s] = @ + 1] /\ s \in Running
      BY DEF Putting, Running
    <3>2. next'[s] # next[s]
      BY <3>1 DEF SeedTypeOK
    <3>3. CASE s \in disturbed
      BY <3>2, <3>3
    <3>4. CASE s \notin disturbed
      <4>1. disturbed = {}
        BY <3>1, <3>4 DEF DisturbedTogether
      <4> QED
        BY <3>2, <4>1, PutCloses
    <3> QED
      BY <3>3, <3>4
  <2>2. ASSUME MoveUnder
        PROVE  pending' # pending /\ outdated
    <3>1. pending' # pending
      BY <2>2 DEF MoveUnder, NoRequest
    <3> QED
      BY <2>2, <3>1, MoveCloses
  <2>3. AdministratorsWrite => MoveUnder
    BY OthersClose
  <2>4. ASSUME NEW s \in Seeds,
               Begin(s) \/ JoinRows(s) \/ ClearDefaults(s) \/ Refused(s) \/ Fails(s) \/ Ends(s)
        PROVE  FALSE
    BY <2>4 DEF Begin, JoinRows, ClearDefaults, Refused, Fails, Ends, Stops, tableVars
  <2>5. ASSUME AdministratorsRead \/ (\E r \in Readers : Read(r)) \/ UNCHANGED seedVars
        PROVE  FALSE
    BY <2>5, AdministratorsLook, ReadersRead DEF seedVars, tableVars
  <2> QED
    BY <2>1, <2>2, <2>3, <2>4, <2>5 DEF SeedNext, Administrators
<1> QED
  BY <1>1, SeedingHolds, PTL DEF SeedSpec, CyclesThroughAdministration

\* What becomes of the state of a run in a step.
LEMMA StateChanges ==
    ASSUME SeedTypeOK, DisturbedTogether, SeedNext,
           NEW s \in Seeds, state[s] = "running", state'[s] # "running"
    PROVE  \/ Refused(s) /\ state'[s] = "refused"
           \/ Fails(s) /\ state'[s] = "failed"
           \/ Ends(s) /\ state'[s] = "done"
<1>1. ASSUME NEW t \in Seeds, Begin(t)
      PROVE  FALSE
  BY <1>1 DEF Begin, SeedTypeOK
<1>2. ASSUME NEW t \in Seeds, PutRow(t) \/ JoinRows(t) \/ ClearDefaults(t)
      PROVE  FALSE
  BY <1>2 DEF PutRow, JoinRows, ClearDefaults, Done
<1>3. ~ Administrators
  BY AdministratorsEdit, AdministratorsLook DEF Administrators, runVars
<1>4. \A r \in Readers : ~ Read(r)
  BY ReadersRead DEF runVars
<1>5. PICK t \in Seeds : Refused(t) \/ Fails(t) \/ Ends(t)
  BY <1>1, <1>2, <1>3, <1>4 DEF SeedNext
<1>6. t = s
  BY <1>5 DEF Refused, Fails, Ends, Stops, SeedTypeOK
<1> QED
  BY <1>5, <1>6 DEF Refused, Fails, Ends, Stops, SeedTypeOK

\* A run that comes to its end beside no administrator has brought about all
\* that its statements stand for.
THEOREM ConvergesSafe == SeedSpec => SeedConverges
<1> DEFINE Brings(s) == (state[s] = "running" /\ state'[s] = "done")
                          => \A n \in 1..Len(Script) : Holds(Script[n])'
<1>1. SeedingInvariant /\ [SeedNext]_seedVars => [\A s \in Seeds \ disturbed : Brings(s)]_seedVars
  <2> SUFFICES ASSUME SeedingInvariant, SeedNext, NEW s \in Seeds \ disturbed,
                      state[s] = "running", state'[s] = "done", NEW n \in 1..Len(Script)
               PROVE  Holds(Script[n])'
    BY Zenon
  <2> USE DEF SeedingInvariant
  <2>1. Ends(s)
    BY StateChanges
  <2>2. disturbed = {} /\ s \in Running
    BY DEF DisturbedTogether, Running
  <2>3. next[s] > Len(Script) /\ UNCHANGED <<settings, tableVars>>
    BY <2>1 DEF Ends, Stops
  <2> PICK st : st = Script[n]
    OBVIOUS
  <2>4. st \in Made(s)
    BY <2>3, ScriptLength DEF Made, Steps, SeedTypeOK
  <2>5. Holds(st)
    BY <2>2, <2>4 DEF StatementsStand
  <2>6. Script'[n] = st
    BY <2>3, ScriptStays
  <2>7. Holds(st)'
    BY <2>3, <2>5, FrameKeeps DEF tableVars
  <2> QED
    BY <2>6, <2>7 DEF Holds
<1> QED
  BY <1>1, SeedingHolds, PTL DEF SeedSpec, SeedConverges

\* A run is refused only when an administrator has deleted while it went on.
THEOREM RefusalSafe == SeedSpec => RefusedOnlyByDeletion
<1> DEFINE Deleted(s) == (state[s] = "running" /\ state'[s] = "refused") => s \in bereft
<1>1. SeedingInvariant /\ [SeedNext]_seedVars => [\A s \in Seeds : Deleted(s)]_seedVars
  <2> SUFFICES ASSUME SeedingInvariant, SeedNext, NEW s \in Seeds,
                      state[s] = "running", state'[s] = "refused", s \notin bereft
               PROVE  FALSE
    BY Zenon
  <2> USE DEF SeedingInvariant
  <2>1. Refused(s)
    BY StateChanges
  <2> DEFINE n == next[s]
  <2> PICK st : st = Script[n]
    OBVIOUS
  <2>2. /\ n \in Steps /\ st.do \in {"row", "join"} /\ s \in Running
        /\ \E i \in Needs(s) : ~ There(i)
    BY <2>1, ScriptLength DEF Refused, Turn, Statement, SeedTypeOK, Steps, Running
  <2>3. Shape(st)
    BY <2>2, StatementShape
  <2>4. ASSUME NEW k \in Keys, Earlier(n, k) PROVE There(got[s][k])
    BY <2>2, <2>4 DEF RunsKeepIds, IdsStand
  <2>5. CASE st.do = "row"
    <3>1. PICK r \in {st.parentId, st.permissionId} \ {"kept", "root"} : ~ There(got[s][r])
      BY <2>2, <2>5 DEF Needs, Statement
    <3>2. Earlier(n, r)
      BY <2>2, <2>5, ScriptOrder DEF SeedTypeOK
    <3>3. r \in Keys
      BY <2>3, <2>5 DEF Shape, Keys
    <3> QED
      BY <2>4, <3>1, <3>2, <3>3
  <2>6. CASE st.do = "join"
    <3>1. PICK r \in {st.a, st.b} : ~ There(got[s][r])
      BY <2>2, <2>6 DEF Needs, Statement
    <3>2. Earlier(n, r)
      BY <2>2, <2>6, ScriptOrder DEF SeedTypeOK
    <3>3. r \in Keys
      BY <2>3, <2>6 DEF Shape
    <3> QED
      BY <2>4, <3>1, <3>2, <3>3
  <2> QED
    BY <2>2, <2>5, <2>6
<1> QED
  BY <1>1, SeedingHolds, PTL DEF SeedSpec, RefusedOnlyByDeletion

\* What an upsert leaves of the default languages.
LEMMA PutKeepsDefault ==
    ASSUME SeedingInvariant, NEW s \in Seeds, NEW st, NEW i, Putting(s, st, i), Defaults # {}
    PROVE  Defaults' # {}
<1> USE DEF SeedingInvariant
<1>1. /\ i \in Ids /\ Fits(i, st.key) /\ name[i] \in {st.key, "unborn"}
      /\ st.key \in Keys \ {"pt"} /\ Shape(st) /\ st.do = "row"
      /\ name' = [name EXCEPT ![i] = st.key] /\ next[s] \in Steps /\ s \in Running
      /\ st = Script[next[s]]
  BY DEF Putting, Shape, Running
<1>2. ASSUME NEW d \in Defaults, d # i
      PROVE  d \in Defaults'
  BY <1>1, <1>2 DEF Putting, Defaults, LanguageIds, There, SeedTypeOK
<1>3. CASE st.key \notin Languages
  BY <1>1, <1>2, <1>3, KindsFit DEF Defaults
<1>4. CASE st.key = "es"
  <2>1. i \in LanguageIds /\ st.default = "yes" /\ st.wakes
    BY <1>1, <1>4, KindsFit DEF Languages, Shape
  <2>2. isDefault'[i] <=> st.default = "yes"
    <3>1. isDefault' = [isDefault EXCEPT ![i] = st.default = "yes"]
      BY <2>1 DEF Putting
    <3>2. isDefault \in [LanguageIds -> BOOLEAN]
      BY DEF SeedTypeOK
    <3> QED
      BY <2>1, <3>1, <3>2
  <2>3. active'[i]
    <3>1. active \in [Ids -> BOOLEAN] /\ active' = [active EXCEPT ![i] = @ \/ st.wakes]
      BY DEF Putting, SeedTypeOK
    <3> QED
      BY <1>1, <2>1, <3>1
  <2>4. There(i)'
    BY <1>1, <1>4, NoIdAssumption DEF There, SeedTypeOK
  <2> QED
    BY <2>1, <2>2, <2>3, <2>4 DEF Defaults
<1>5. CASE st.key = "en"
  <2>1. section = "catalogs" /\ disturbed = {}
    BY <1>1, <1>5 DEF Shape, Languages, DisturbedTogether
  <2>2. PICK m \in Steps : m < next[s] /\ Puts(m, "es")
    <3>1. Puts(next[s], "en")
      BY <1>1, <1>5 DEF Puts
    <3> QED
      BY <1>1, <3>1, ScriptOrder DEF Earlier, SeedTypeOK
  <2> PICK su : su = Script[m]
    OBVIOUS
  <2>3. Holds(su) /\ su.do = "row" /\ su.key = "es" /\ su.default = "yes" /\ su.wakes
    <3>1. su \in Made(s) /\ su.do = "row" /\ su.key = "es"
      BY <2>2 DEF Made, Puts
    <3>2. Shape(su)
      BY <2>2, ScriptShape DEF SeedTypeOK
    <3> QED
      BY <1>1, <2>1, <3>1, <3>2 DEF StatementsStand, Shape
  <2>4. PICK d \in Named("es") : active[d] /\ isDefault[d]
    BY <2>3 DEF Holds
  <2>5. d \in LanguageIds /\ name[d] = "es"
    BY NameFits, KindsFit DEF Named, Keys, Languages
  <2>6. d \in Defaults /\ d # i
    BY <1>1, <1>5, <2>4, <2>5, NoIdAssumption DEF Defaults, LanguageIds, There
  <2> QED
    BY <1>2, <2>6
<1> QED
  BY <1>1, <1>3, <1>4, <1>5 DEF Languages

\* The clearing leaves Spanish, which the run has put.
LEMMA ClearKeepsDefault ==
    ASSUME SeedingInvariant, NEW s \in Seeds, ClearDefaults(s)
    PROVE  Defaults' # {}
<1> USE DEF SeedingInvariant
<1>1. /\ next[s] \in Steps /\ Script[next[s]].do = "clear" /\ s \in Running
      /\ isDefault' = [i \in LanguageIds |-> isDefault[i] /\ name[i] = "es"]
      /\ name' = name /\ active' = active
  BY ScriptLength DEF ClearDefaults, Turn, Statement, Running, SeedTypeOK, Steps
<1>2. section = "catalogs" /\ disturbed = {}
  BY <1>1, ScriptShape DEF Shape, DisturbedTogether, SeedTypeOK
<1>3. PICK m \in Steps : m < next[s] /\ Puts(m, "es")
  BY <1>1, ScriptOrder DEF Earlier, SeedTypeOK
<1> PICK su : su = Script[m]
  OBVIOUS
<1>4. Holds(su) /\ su.do = "row" /\ su.key = "es" /\ su.default = "yes" /\ su.wakes
  <2>1. su \in Made(s) /\ su.do = "row" /\ su.key = "es"
    BY <1>3 DEF Made, Puts
  <2>2. Shape(su)
    BY <1>3, ScriptShape DEF SeedTypeOK
  <2> QED
    BY <1>1, <1>2, <2>1, <2>2 DEF StatementsStand, Shape
<1>5. PICK d \in Named("es") : active[d] /\ isDefault[d]
  BY <1>4 DEF Holds
<1>6. d \in LanguageIds /\ name[d] = "es"
  BY NameFits, KindsFit DEF Named, Keys, Languages
<1> QED
  BY <1>1, <1>5, <1>6, NoIdAssumption DEF Defaults, LanguageIds, There

\* From the first run of the seed on there is a default language, between its
\* statements too.
THEOREM DefaultSafe == SeedSpec => DefaultStays
<1>1. SeedingInvariant /\ [SeedNext]_seedVars => [Defaults # {} => Defaults' # {}]_seedVars
  <2> SUFFICES ASSUME SeedingInvariant, SeedNext, Defaults # {}
               PROVE  Defaults' # {}
    BY Zenon
  <2> USE DEF SeedingInvariant
  <2>1. ASSUME NEW s \in Seeds, PutRow(s)
        PROVE  Defaults' # {}
    BY <2>1, PutRowPuts, PutKeepsDefault
  <2>2. ASSUME NEW s \in Seeds, ClearDefaults(s)
        PROVE  Defaults' # {}
    BY <2>2, ClearKeepsDefault
  <2>3. CASE name' = name /\ active' = active /\ isDefault' = isDefault
    BY <2>3 DEF Defaults, There
  <2>4. CASE AdministratorsWrite
    <3>1. isDefault' = isDefault
      BY <2>4, AdministratorsEdit
    <3>2. \A d \in LanguageIds : /\ d \in Ids /\ d \notin MenuIds /\ NamesFor(d) = {}
                                /\ d[1] \notin Roles \cup Permissions \cup {"account"}
      <4>1. (MenuKeys \cup Roles \cup Permissions \cup {"account"}) \cap Languages = {}
        BY DEF Languages, Roles, Permissions, MenuKeys
      <4>2. \A d \in LanguageIds : d \in Ids /\ d[1] \in Languages
        BY DEF LanguageIds
      <4> QED
        BY <4>1, <4>2, OptionKeys, NamesByKind
    <3>3. \A d \in LanguageIds : name'[d] = name[d]
      <4>1. \/ name' = name
            \/ \E i \in Ids \ LanguageIds : \E k : name' = [name EXCEPT ![i] = k]
            \/ \E rows : Delete(rows) /\ rows \cap LanguageIds = {}
        <5>1. Below(pending.option) \cap LanguageIds = {}
          BY <3>2 DEF Below, Options
        <5>2. ASSUME NEW i \in Ids, DeleteRight(i)
              PROVE  {i} \cap LanguageIds = {} /\ Delete({i})
          BY <3>2, <5>2 DEF DeleteRight
        <5>3. ASSUME NEW i \in Ids, NEW k \in NamesFor(i), Rename(i, k)
              PROVE  i \in Ids \ LanguageIds /\ name' = [name EXCEPT ![i] = k]
          BY <3>2, <5>3 DEF Rename
        <5> QED
          BY <2>4, <5>1, <5>2, <5>3
             DEF AdministratorsWrite, Unassign, SwitchOff, MoveToRoot, MoveUnder, RemoveMenu
      <4>2. ASSUME NEW rows, Delete(rows), rows \cap LanguageIds = {}
            PROVE  \A d \in LanguageIds : name'[d] = name[d]
        BY <3>2, <4>2 DEF Delete
      <4> QED
        BY <3>2, <4>1, <4>2 DEF SeedTypeOK
    <3>4. \A d \in LanguageIds : active'[d] = active[d]
      <4>1. \/ active' = active
            \/ \E i \in Ids \ LanguageIds : active' = [active EXCEPT ![i] = FALSE]
        BY <2>4, <3>2
           DEF AdministratorsWrite, Rename, DeleteRight, Unassign, SwitchOff, MoveToRoot,
               MoveUnder, RemoveMenu
      <4> QED
        BY <3>2, <4>1 DEF SeedTypeOK
    <3> QED
      BY <3>1, <3>3, <3>4 DEF Defaults, There
  <2>5. ASSUME NEW s \in Seeds,
               Begin(s) \/ JoinRows(s) \/ Refused(s) \/ Fails(s) \/ Ends(s)
        PROVE  Defaults' # {}
    BY <2>3, <2>5 DEF Begin, JoinRows, Refused, Fails, Ends, Stops, tableVars
  <2>6. ASSUME NEW r \in Readers, Read(r)
        PROVE  Defaults' # {}
    BY <2>3, <2>6, ReadersRead DEF tableVars
  <2>7. ASSUME AdministratorsRead
        PROVE  Defaults' # {}
    BY <2>3, <2>7, AdministratorsLook DEF tableVars
  <2> QED
    BY <2>1, <2>2, <2>4, <2>5, <2>6, <2>7 DEF SeedNext, Administrators
<1> QED
  BY <1>1, SeedingHolds, PTL DEF SeedSpec, DefaultStays
=============================================================================
