--------------------------- MODULE MenuHierarchy ---------------------------
(***************************************************************************)
(* MenusService.create, update and delete: the tree of menu options.  Each *)
(* call checks the tree with reads of its own, one await apart, and writes *)
(* at the end without a transaction, so that other calls may write between *)
(* its checks and its write.  The foreign key of parent_id deletes the     *)
(* children with the parent (ON DELETE CASCADE).                           *)
(***************************************************************************)
CONSTANTS Menus, Calls,
          Root    \* parent_id is null

ASSUME MenuAssumption == Root \notin Menus

VARIABLES
    exists,   \* the menus rows
    parent,   \* their parent_id
    op, phase,
    menu,     \* the option a call creates, moves or deletes
    target,   \* dto.parentId
    at,       \* the ancestor whose row validateRelations reads next
    \* History.
    seen,     \* the ancestors that the call has read
    stale,    \* calls during which another call has changed the tree
    raced     \* a stale call has written

treeVars == <<exists, parent>>
callVars == <<op, menu, target>>
vars == <<treeVars, callVars, phase, at, seen, stale, raced>>

\* Every set of options has one whose parent is outside of it: following the
\* parents from any option leads to the root.
Acyclic == \A S \in SUBSET exists : S # {} => \E m \in S : parent[m] \notin S

Init == /\ exists \in SUBSET Menus
        /\ parent \in [Menus -> Menus \cup {Root}]
        /\ \A m \in Menus : parent[m] \in exists \cup {Root} /\ (m \notin exists => parent[m] = Root)
        /\ Acyclic
        /\ op = [c \in Calls |-> "none"]
        /\ phase = [c \in Calls |-> "idle"]
        /\ menu = [c \in Calls |-> Root]
        /\ target = [c \in Calls |-> Root]
        /\ at = [c \in Calls |-> Root]
        /\ seen = [c \in Calls |-> {}]
        /\ stale = {}
        /\ raced = FALSE

-----------------------------------------------------------------------------
Goto(c, from, to) == phase[c] = from /\ phase' = [phase EXCEPT ![c] = to]

\* POST, PATCH (with a parentId; without one the tree is left alone) and
\* DELETE /menus.  A new option is one that is not there.
Arrive(c, o, m, p) ==
    /\ phase[c] = "idle"
    /\ o = "create" => m \notin exists
    /\ o = "delete" => p = Root
    /\ phase' = [phase EXCEPT ![c] = IF o # "create" THEN "read"
                                     ELSE IF p = Root THEN "write" ELSE "walk"]
    /\ op' = [op EXCEPT ![c] = o]
    /\ menu' = [menu EXCEPT ![c] = m]
    /\ target' = [target EXCEPT ![c] = p]
    /\ at' = [at EXCEPT ![c] = p]
    /\ UNCHANGED <<treeVars, seen, stale, raced>>

\* Mutant: an option may become its own parent.
ReadMenuUnchecked(c) ==
    /\ Goto(c, "read", IF op[c] = "delete" THEN "count"
                       ELSE IF target[c] = Root THEN "write" ELSE "walk")
    /\ menu[c] \in exists
    /\ UNCHANGED <<treeVars, callVars, at, seen, stale, raced>>

\* requireMenu finds the option, which is not to become its own parent.
ReadMenu(c) ==
    /\ Goto(c, "read", IF op[c] = "delete" THEN "count"
                       ELSE IF target[c] = Root THEN "write" ELSE "walk")
    /\ menu[c] \in exists
    /\ target[c] # menu[c]
    /\ UNCHANGED <<treeVars, callVars, at, seen, stale, raced>>

\* Mutants: only the parent itself is looked at; the loop reads one row again
\* and again.
ReadParentOnly(c) ==
    /\ Goto(c, "walk", "write")
    /\ at[c] \in exists
    /\ seen' = [seen EXCEPT ![c] = @ \cup {at[c]}]
    /\ UNCHANGED <<treeVars, callVars, at, stale, raced>>

ReadAncestorAgain(c) ==
    LET a == at[c]
    IN  /\ phase[c] = "walk"
        /\ a \in exists
        /\ op[c] = "move" => parent[a] # menu[c]
        /\ phase' = IF op[c] = "move" /\ parent[a] # Root
                    THEN phase ELSE [phase EXCEPT ![c] = "write"]
        /\ seen' = [seen EXCEPT ![c] = @ \cup {a}]
        /\ UNCHANGED <<treeVars, callVars, at, stale, raced>>

\* validateRelations: the row of one more ancestor of the new parent.  A new
\* option has no descendants: for it only the parent itself is read.
ReadAncestor(c) ==
    LET a == at[c]
    IN  /\ phase[c] = "walk"
        /\ a \in exists
        /\ op[c] = "move" => parent[a] # menu[c]
        /\ IF op[c] = "move" /\ parent[a] # Root
           THEN at' = [at EXCEPT ![c] = parent[a]] /\ UNCHANGED phase
           ELSE phase' = [phase EXCEPT ![c] = "write"] /\ UNCHANGED at
        /\ seen' = [seen EXCEPT ![c] = @ \cup {a}]
        /\ UNCHANGED <<treeVars, callVars, stale, raced>>

\* Mutant: the count is not looked at.
CountChildrenIgnored(c) ==
    /\ Goto(c, "count", "write")
    /\ UNCHANGED <<treeVars, callVars, at, seen, stale, raced>>

CountChildren(c) ==
    /\ Goto(c, "count", "write")
    /\ \A m \in exists : parent[m] # menu[c]
    /\ UNCHANGED <<treeVars, callVars, at, seen, stale, raced>>

\* 404 for an option or ancestor that is not there; 400 for an option moved
\* under itself or under one of its descendants, or deleted with children.
Refuse(c) ==
    /\ \/ phase[c] = "read" /\ (menu[c] \notin exists \/ target[c] = menu[c])
       \/ phase[c] = "walk" /\ at[c] \notin exists
       \/ phase[c] = "walk" /\ op[c] = "move" /\ at[c] \in exists /\ parent[at[c]] = menu[c]
       \/ phase[c] = "count" /\ \E m \in exists : parent[m] = menu[c]
    /\ phase' = [phase EXCEPT ![c] = "done"]
    /\ UNCHANGED <<treeVars, callVars, at, seen, stale, raced>>

\* The process dies, a statement fails, the key or the permission is refused.
Dies(c) ==
    /\ phase[c] \notin {"idle", "done"}
    /\ phase' = [phase EXCEPT ![c] = "done"]
    /\ UNCHANGED <<treeVars, callVars, at, seen, stale, raced>>

-----------------------------------------------------------------------------
(* The writes.                                                             *)

\* The option and all that hangs from it: what the database deletes.
Subtree(m) ==
    {x \in exists : \A S \in SUBSET exists :
        (m \in S /\ \A y \in exists : parent[y] \in S => y \in S) => x \in S}

\* The others under way have not seen this write in what they read so far.
Wrote(c) ==
    /\ Goto(c, "write", "done")
    /\ stale' = stale \cup {d \in Calls \ {c} : phase[d] \in {"walk", "count", "write"}}
    /\ raced' = (raced \/ c \in stale)
    /\ UNCHANGED <<callVars, at, seen>>

InsertMenu(c) ==
    /\ op[c] = "create"
    /\ menu[c] \notin exists
    /\ target[c] \in exists \cup {Root}
    /\ exists' = exists \cup {menu[c]}
    /\ parent' = [parent EXCEPT ![menu[c]] = target[c]]
    /\ Wrote(c)

MoveMenu(c) ==
    /\ op[c] = "move"
    /\ menu[c] \in exists
    /\ target[c] \in exists \cup {Root}
    /\ parent' = [parent EXCEPT ![menu[c]] = target[c]]
    /\ UNCHANGED exists
    /\ Wrote(c)

DeleteMenu(c) ==
    /\ op[c] = "delete"
    /\ menu[c] \in exists
    /\ exists' = exists \ Subtree(menu[c])
    /\ parent' = [m \in Menus |-> IF m \in Subtree(menu[c]) THEN Root ELSE parent[m]]
    /\ Wrote(c)

\* The row, or the new parent, is gone (P2025, P2003): 500.
WriteFails(c) ==
    /\ phase[c] = "write"
    /\ \/ op[c] \in {"move", "delete"} /\ menu[c] \notin exists
       \/ op[c] \in {"create", "move"} /\ target[c] \notin exists \cup {Root}
    /\ phase' = [phase EXCEPT ![c] = "done"]
    /\ UNCHANGED <<treeVars, callVars, at, seen, stale, raced>>

-----------------------------------------------------------------------------
Progress(c) ==
    \/ ReadMenu(c) \/ ReadAncestor(c) \/ CountChildren(c) \/ Refuse(c)
    \/ InsertMenu(c) \/ MoveMenu(c) \/ DeleteMenu(c) \/ WriteFails(c)

Next == \E c \in Calls :
           \/ \E o \in {"create", "move", "delete"}, m \in Menus, p \in Menus \cup {Root} :
                Arrive(c, o, m, p)
           \/ Progress(c) \/ Dies(c)

Spec == Init /\ [][Next]_vars

\* The queries of a live process are answered.
FairSpec == Spec /\ \A c \in Calls : WF_vars(Progress(c))

-----------------------------------------------------------------------------
(* Properties.                                                             *)

TypeOK ==
    /\ exists \subseteq Menus
    /\ parent \in [Menus -> Menus \cup {Root}]
    /\ op \in [Calls -> {"none", "create", "move", "delete"}]
    /\ phase \in [Calls -> {"idle", "read", "walk", "count", "write", "done"}]
    /\ menu \in [Calls -> Menus \cup {Root}]
    /\ target \in [Calls -> Menus \cup {Root}]
    /\ at \in [Calls -> Menus \cup {Root}]
    /\ seen \in [Calls -> SUBSET Menus]
    /\ stale \subseteq Calls
    /\ raced \in BOOLEAN

\* The parents are options that are there, and as long as no call has written
\* on checks that another call's write had outdated they form a tree
\* (validateRelations walks the ancestors of the new parent).
TreeUnlessRaced ==
    /\ \A m \in exists : parent[m] \in exists \cup {Root}
    /\ raced \/ Acyclic

\* The inductive invariant: the ancestors that a move has read are closed
\* under parent, up to the one it reads next, and do not include the option.
WalkIsClosed ==
    \A c \in Calls :
        (op[c] = "move" /\ phase[c] \in {"read", "walk", "write"} /\ target[c] # Root
           /\ c \notin stale) =>
        LET known == seen[c] \cup (IF phase[c] = "write" THEN {} ELSE {at[c]})
        IN  /\ target[c] \in known
            /\ phase[c] # "read" => menu[c] \notin known
            /\ \A v \in seen[c] : v \in exists /\ parent[v] \in known \cup {Root}

NothingSeenYet ==
    \A c \in Calls :
        /\ phase[c] \in {"idle", "read"} => seen[c] = {} /\ c \notin stale
        /\ phase[c] \in {"read", "walk"} /\ op[c] = "move" => at[c] = target[c] \/ seen[c] # {}
        /\ phase[c] \in {"read", "walk", "count", "write"} => menu[c] \in Menus
        /\ phase[c] = "walk" => at[c] \in Menus /\ op[c] # "delete"
        /\ phase[c] = "idle" => op[c] = "none"
        /\ phase[c] = "read" => op[c] \in {"move", "delete"}
        /\ phase[c] = "count" => op[c] = "delete"

\* An option that a delete has found without children still has none.
CountStands ==
    \A c \in Calls :
        (op[c] = "delete" /\ phase[c] = "write" /\ c \notin stale) =>
        \A m \in exists : parent[m] # menu[c]

HierarchyInvariant ==
    TypeOK /\ TreeUnlessRaced /\ WalkIsClosed /\ NothingSeenYet /\ CountStands

\* A delete that ran without another write in its span removes one option.
\* With one it may not: what is created or moved under the option after its
\* children were counted goes with it, although 'El menú contiene opciones
\* hijas' is refused.
LoneDeleteTakesOne ==
    [][\A c \in Calls : (op[c] = "delete" /\ phase[c] = "write" /\ phase'[c] = "done"
                           /\ c \notin stale /\ exists' # exists)
                         => exists' = exists \ {menu[c]}]_vars

\* The walk to the root ends, as long as no race has made a cycle.
WalksEnd == \A c \in Calls : phase[c] = "walk" ~> (phase[c] # "walk" \/ raced)

\* What the 400s of the service promise: 'La jerarquía del menú contiene un
\* ciclo' is refused.  Two simultaneous moves get past it.
NeverCyclic == Acyclic
=============================================================================
