---------------------------- MODULE AuthSessions ----------------------------
(***************************************************************************)
(* AuthService: login, refresh-token rotation and logout.  A session is    *)
(* the chain of refresh tokens that starts with a login; each refresh is   *)
(* to exchange the last token of the chain for a new one.  A call gives    *)
(* way at every await, so calls on one token interleave freely, and any    *)
(* call may die between two of its statements.                             *)
(***************************************************************************)
CONSTANTS Users, Tokens, Calls, NoUser, NoToken, NoCall

ASSUME SessionsAssumption ==
    NoUser \notin Users /\ NoToken \notin Tokens /\ NoCall \notin Calls

VARIABLES
    \* The database.
    active,     \* users.is_active
    owner,      \* refresh_tokens.user_id; NoUser: there is no such row
    revokedBy,  \* refresh_tokens.revoked_at: the call that set it, or NoCall
    expired,    \* expires_at has passed
    \* The calls in the Node process.
    op,         \* which endpoint
    phase,      \* the statement the handler is about to run
    user,       \* the account the handler works for
    token,      \* the refresh token the caller presented
    minted,     \* the refresh token the handler has stored
    result,     \* the answer
    \* The callers, and history.
    delivered,  \* refresh tokens that reached their owner
    parent,     \* the token that was exchanged for this one
    root,       \* the first token of the chain
    deadOnArrival, \* calls whose token was of no use when they arrived
    seenActive     \* calls during which their account was active at some time

dbVars == <<active, owner, revokedBy, expired>>
callVars == <<op, phase, user, token, minted, result>>
historyVars == <<parent, root, deadOnArrival, seenActive>>
vars == <<dbVars, callVars, delivered, historyVars>>

Init == /\ active \in [Users -> BOOLEAN]
        /\ owner = [t \in Tokens |-> NoUser]
        /\ revokedBy = [t \in Tokens |-> NoCall]
        /\ expired = [t \in Tokens |-> FALSE]
        /\ op = [c \in Calls |-> "none"]
        /\ phase = [c \in Calls |-> "idle"]
        /\ user = [c \in Calls |-> NoUser]
        /\ token = [c \in Calls |-> NoToken]
        /\ minted = [c \in Calls |-> NoToken]
        /\ result = [c \in Calls |-> "none"]
        /\ delivered = {}
        /\ parent = [t \in Tokens |-> NoToken]
        /\ root = [t \in Tokens |-> NoToken]
        /\ deadOnArrival = {}
        /\ seenActive = {}

Exists(t) == owner[t] # NoUser
Usable(t) == Exists(t) /\ revokedBy[t] = NoCall /\ ~ expired[t]

-----------------------------------------------------------------------------
(* A call arrives.                                                         *)

Begin(c, o, first) ==
    /\ phase[c] = "idle"
    /\ phase' = [phase EXCEPT ![c] = first]
    /\ op' = [op EXCEPT ![c] = o]

\* The account u is now or was before active while c is being served.
Witness(c, u) == seenActive' = IF active[u] THEN seenActive \cup {c} ELSE seenActive

\* POST /auth/login with the e-mail of account u.
Login(c, u) ==
    /\ Begin(c, "login", "findUser")
    /\ user' = [user EXCEPT ![c] = u]
    /\ Witness(c, u)
    /\ UNCHANGED <<dbVars, token, minted, result, delivered, parent, root, deadOnArrival>>

\* POST /auth/refresh or /auth/logout with a token the caller was given.
Present(c, o, t) ==
    /\ o \in {"refresh", "logout"}
    /\ t \in delivered
    /\ Begin(c, o, "lookup")
    /\ token' = [token EXCEPT ![c] = t]
    /\ user' = [user EXCEPT ![c] = owner[t]]
    /\ Witness(c, owner[t])
    /\ deadOnArrival' = IF Usable(t) THEN deadOnArrival ELSE deadOnArrival \cup {c}
    /\ UNCHANGED <<dbVars, minted, result, delivered, parent, root>>

-----------------------------------------------------------------------------
(* The steps of a call.                                                    *)

Goto(c, from, to) == phase[c] = from /\ phase' = [phase EXCEPT ![c] = to]

Finish(c, r) ==
    /\ phase' = [phase EXCEPT ![c] = "done"]
    /\ result' = [result EXCEPT ![c] = r]
    /\ UNCHANGED <<dbVars, op, user, token, minted, historyVars>>

Deny(c) == Finish(c, "denied") /\ UNCHANGED delivered

\* login: the account is found and active; its password is yet to be hashed.
FindUser(c) ==
    /\ Goto(c, "findUser", "password")
    /\ active[user[c]]
    /\ UNCHANGED <<dbVars, op, user, token, minted, result, delivered, historyVars>>

\* argon2 says the password is the right one.
PasswordMatches(c) ==
    /\ Goto(c, "password", "insert")
    /\ UNCHANGED <<dbVars, op, user, token, minted, result, delivered, historyVars>>

LoginRefused(c) ==
    /\ (phase[c] = "findUser" /\ ~ active[user[c]]) \/ phase[c] = "password"
    /\ Deny(c)

\* Mutant: expires_at is not compared with the clock.
LookupIgnoresExpiry(c) ==
    /\ Goto(c, "lookup", "compare")
    /\ Exists(token[c]) /\ revokedBy[token[c]] = NoCall
    /\ UNCHANGED <<dbVars, op, user, token, minted, result, delivered, historyVars>>

\* validateRefreshToken: one read of the row, checked against the clock.
Lookup(c) ==
    /\ Goto(c, "lookup", "compare")
    /\ Usable(token[c])
    /\ UNCHANGED <<dbVars, op, user, token, minted, result, delivered, historyVars>>

\* argon2 says the secret is the right one.
SecretMatches(c) ==
    /\ Goto(c, "compare", "revoke")
    /\ UNCHANGED <<dbVars, op, user, token, minted, result, delivered, historyVars>>

TokenRefused(c) ==
    /\ (phase[c] = "lookup" /\ ~ Usable(token[c])) \/ phase[c] = "compare"
    /\ Deny(c)

\* Mutants: the update has no condition on revokedAt; or is forgotten.
RevokeForRefreshAlways(c) ==
    /\ op[c] = "refresh"
    /\ Goto(c, "revoke", "reread")
    /\ revokedBy' = [revokedBy EXCEPT ![token[c]] = c]
    /\ UNCHANGED <<active, owner, expired, op, user, token, minted, result,
                   delivered, historyVars>>

RevokeForRefreshForgotten(c) ==
    /\ op[c] = "refresh"
    /\ Goto(c, "revoke", "reread")
    /\ UNCHANGED <<dbVars, op, user, token, minted, result, delivered, historyVars>>

\* updateMany where revokedAt is null: count 1, the token is this call's.
RevokeForRefresh(c) ==
    /\ op[c] = "refresh"
    /\ Goto(c, "revoke", "reread")
    /\ revokedBy[token[c]] = NoCall
    /\ revokedBy' = [revokedBy EXCEPT ![token[c]] = c]
    /\ UNCHANGED <<active, owner, expired, op, user, token, minted, result,
                   delivered, historyVars>>

\* Count 0: another call took it since the lookup.
RefreshLosesRace(c) ==
    /\ op[c] = "refresh"
    /\ phase[c] = "revoke"
    /\ revokedBy[token[c]] # NoCall
    /\ Deny(c)

\* Mutant: the update of logout has no condition on revokedAt.
RevokeForLogoutAlways(c) ==
    /\ op[c] = "logout"
    /\ phase[c] = "revoke"
    /\ phase' = [phase EXCEPT ![c] = "done"]
    /\ result' = [result EXCEPT ![c] = "closed"]
    /\ revokedBy' = [revokedBy EXCEPT ![token[c]] = c]
    /\ UNCHANGED <<active, owner, expired, op, user, token, minted, delivered,
                   historyVars>>

\* The same update in logout, whose count nobody looks at.
RevokeForLogout(c) ==
    /\ op[c] = "logout"
    /\ phase[c] = "revoke"
    /\ phase' = [phase EXCEPT ![c] = "done"]
    /\ result' = [result EXCEPT ![c] = "closed"]
    /\ revokedBy' = IF revokedBy[token[c]] = NoCall
                    THEN [revokedBy EXCEPT ![token[c]] = c] ELSE revokedBy
    /\ UNCHANGED <<active, owner, expired, op, user, token, minted, delivered,
                   historyVars>>

\* Mutant: the account is not looked at again.
RereadUnchecked(c) ==
    /\ Goto(c, "reread", "insert")
    /\ UNCHANGED <<dbVars, op, user, token, minted, result, delivered, historyVars>>

\* refresh reads the account again.
Reread(c) ==
    /\ Goto(c, "reread", "insert")
    /\ active[user[c]]
    /\ UNCHANGED <<dbVars, op, user, token, minted, result, delivered, historyVars>>

RefreshRefused(c) ==
    /\ phase[c] = "reread"
    /\ ~ active[user[c]]
    /\ Deny(c)

\* issueSession: the access token is signed, then the new row is stored.
InsertToken(c, t) ==
    /\ Goto(c, "insert", "answer")
    /\ ~ Exists(t)
    /\ owner' = [owner EXCEPT ![t] = user[c]]
    /\ parent' = [parent EXCEPT ![t] = token[c]]
    /\ root' = [root EXCEPT ![t] = IF op[c] = "login" THEN t ELSE root[token[c]]]
    /\ minted' = [minted EXCEPT ![c] = t]
    /\ UNCHANGED <<active, revokedBy, expired, op, user, token, result, delivered, deadOnArrival, seenActive>>

Answer(c) ==
    /\ phase[c] = "answer"
    /\ delivered' = delivered \cup {minted[c]}
    /\ Finish(c, "issued")

\* The process dies, a statement fails, or the answer is lost on its way.
Dies(c) ==
    /\ phase[c] \notin {"idle", "done"}
    /\ Finish(c, "error")
    /\ UNCHANGED delivered

-----------------------------------------------------------------------------
(* The rest of the world.                                                  *)

\* UsersService.setActive.  Tokens are left alone.
SetActive(u) ==
    /\ active' = [active EXCEPT ![u] = ~ @]
    /\ seenActive' = IF active[u] THEN seenActive
                     ELSE seenActive \cup {c \in Calls : user[c] = u}
    /\ UNCHANGED <<owner, revokedBy, expired, callVars, delivered, parent, root, deadOnArrival>>

\* The days of REFRESH_TOKEN_EXPIRES_IN_DAYS go by.
Expire(t) ==
    /\ Exists(t) /\ ~ expired[t]
    /\ expired' = [expired EXCEPT ![t] = TRUE]
    /\ UNCHANGED <<active, owner, revokedBy, callVars, delivered, historyVars>>

-----------------------------------------------------------------------------
Step(c) ==
    \/ FindUser(c) \/ PasswordMatches(c) \/ LoginRefused(c)
    \/ Lookup(c) \/ SecretMatches(c) \/ TokenRefused(c)
    \/ RevokeForRefresh(c) \/ RefreshLosesRace(c) \/ RevokeForLogout(c)
    \/ Reread(c) \/ RefreshRefused(c)
    \/ \E t \in Tokens : InsertToken(c, t)
    \/ Answer(c) \/ Dies(c)

Arrives(c) ==
    \/ \E u \in Users : Login(c, u)
    \/ \E o \in {"refresh", "logout"}, t \in Tokens : Present(c, o, t)

Next == \/ \E c \in Calls : Arrives(c) \/ Step(c)
        \/ \E u \in Users : SetActive(u)
        \/ \E t \in Tokens : Expire(t)

Spec == Init /\ [][Next]_vars

-----------------------------------------------------------------------------
(* Properties.                                                             *)

Phases == {"idle", "findUser", "password", "lookup", "compare", "revoke",
           "reread", "insert", "answer", "done"}

TypeOK ==
    /\ active \in [Users -> BOOLEAN]
    /\ owner \in [Tokens -> Users \cup {NoUser}]
    /\ revokedBy \in [Tokens -> Calls \cup {NoCall}]
    /\ expired \in [Tokens -> BOOLEAN]
    /\ op \in [Calls -> {"none", "login", "refresh", "logout"}]
    /\ phase \in [Calls -> Phases]
    /\ user \in [Calls -> Users \cup {NoUser}]
    /\ token \in [Calls -> Tokens \cup {NoToken}]
    /\ minted \in [Calls -> Tokens \cup {NoToken}]
    /\ result \in [Calls -> {"none", "issued", "closed", "denied", "error"}]
    /\ delivered \subseteq Tokens
    /\ parent \in [Tokens -> Tokens \cup {NoToken}]
    /\ root \in [Tokens -> Tokens \cup {NoToken}]
    /\ deadOnArrival \subseteq Calls
    /\ seenActive \subseteq Calls

\* A refresh token is exchanged at most once, however many calls present it
\* at the same time (the conditional updateMany of refresh).
ExchangedOnce ==
    \A s, t \in Tokens : parent[s] # NoToken /\ parent[s] = parent[t] => s = t

\* Rotation never forks a session: of the tokens of one login at most one is
\* not revoked.
OneLiveTokenPerSession ==
    \A s, t \in Tokens :
        (/\ Exists(s) /\ Exists(t) /\ root[s] = root[t]
         /\ revokedBy[s] = NoCall /\ revokedBy[t] = NoCall) => s = t

\* A logout that comes first wins: a token that a logout revoked has no
\* successor, ever.
LogoutLeavesNoHeir ==
    \A s, t \in Tokens :
        parent[t] = s /\ s # NoToken => op[revokedBy[s]] = "refresh"

\* The checks are made on rows that may have changed since, but never on
\* stale grounds altogether: a session is given only to a call whose token
\* was good when the call arrived and whose account was active at some
\* moment of the call.
NoSessionOnStaleGrounds ==
    \A c \in Calls : result[c] = "issued" => c \notin deadOnArrival /\ c \in seenActive

\* What the answer of logout says, 'Sesión cerrada correctamente': once it is
\* given the session that the token belonged to has no token left to go on
\* with.  The code does not keep this when a refresh runs at the same time.
LogoutClosesSession ==
    \A c \in Calls : result[c] = "closed" =>
        \A t \in Tokens : Usable(t) => root[t] # root[token[c]]

-----------------------------------------------------------------------------
(* The inductive invariant that carries the invariants above, the last     *)
(* excepted.                                                               *)

CallFits ==
    \A c \in Calls :
        /\ phase[c] = "idle" => op[c] = "none"
        /\ phase[c] \in {"findUser", "password"} => op[c] = "login"
        /\ phase[c] \in {"lookup", "compare", "revoke"} => op[c] \in {"refresh", "logout"}
        /\ phase[c] = "reread" => op[c] = "refresh"
        /\ phase[c] \in {"insert", "answer"} => op[c] \in {"login", "refresh"}
        /\ op[c] \in {"refresh", "logout"} => token[c] \in Tokens /\ Exists(token[c])
        /\ op[c] \in {"none", "login"} => token[c] = NoToken
        /\ op[c] # "none" => user[c] \in Users
        /\ minted[c] # NoToken => phase[c] \in {"answer", "done"}
        /\ phase[c] = "answer" => minted[c] # NoToken
        /\ result[c] # "none" => phase[c] = "done"

TokenFits ==
    \A t \in Tokens :
        /\ Exists(t) => root[t] \in Tokens /\ Exists(root[t])
        /\ ~ Exists(t) => parent[t] = NoToken /\ revokedBy[t] = NoCall /\ t \notin delivered
        /\ \A c \in Calls : minted[c] = t => Exists(t)
        /\ revokedBy[t] # NoCall => op[revokedBy[t]] \in {"refresh", "logout"}

\* A refresh between its update and its insert: the session has no live token.
Exchanging(c) == op[c] = "refresh" /\ phase[c] \in {"reread", "insert"}

\* The successor of a token is the one minted by the refresh that revoked it.
HeirIsMinted ==
    /\ \A t \in Tokens : parent[t] # NoToken =>
          LET c == revokedBy[parent[t]]
          IN  c \in Calls /\ op[c] = "refresh" /\ minted[c] = t
    /\ \A c \in Calls : Exchanging(c) => revokedBy[token[c]] = c

\* A session is either in one live token or in one exchange.
SessionInOnePlace ==
    /\ \A c \in Calls, t \in Tokens :
          (Exchanging(c) /\ Exists(t) /\ revokedBy[t] = NoCall) => root[t] # root[token[c]]
    /\ \A c, d \in Calls :
          (Exchanging(c) /\ Exchanging(d) /\ root[token[c]] = root[token[d]]) => c = d

GroundsKnown ==
    \A c \in Calls :
        /\ c \in deadOnArrival => op[c] \in {"refresh", "logout"} /\ ~ Usable(token[c])
        /\ (op[c] = "refresh" /\ phase[c] \in {"compare", "revoke", "reread", "insert", "answer"})
             => c \notin deadOnArrival
        /\ (op[c] # "none" /\ active[user[c]]) => c \in seenActive
        /\ phase[c] \in {"password", "insert", "answer"} => c \in seenActive

SessionsInvariant ==
    /\ TypeOK
    /\ CallFits /\ TokenFits /\ HeirIsMinted /\ SessionInOnePlace /\ GroundsKnown
    /\ ExchangedOnce /\ OneLiveTokenPerSession /\ LogoutLeavesNoHeir /\ NoSessionOnStaleGrounds

-----------------------------------------------------------------------------
ClosedByLogout(t) == revokedBy[t] # NoCall /\ op[revokedBy[t]] = "logout"

\* A session that a logout closed is in neither.
ClosedStaysClosed ==
    \A t \in Tokens : ClosedByLogout(t) =>
        /\ \A s \in Tokens : (Exists(s) /\ root[s] = root[t]) => revokedBy[s] # NoCall
        /\ \A c \in Calls : Exchanging(c) => root[token[c]] # root[t]

\* The first token of a chain starts it, and is there to be revoked.
RootsAreRoots ==
    \A t \in Tokens : Exists(t) =>
        /\ root[root[t]] = root[t]
        /\ root[t] # t => revokedBy[root[t]] # NoCall

LedgerInvariant == ClosedStaysClosed /\ RootsAreRoots

\* Rotation keeps the ledger of sessions: whatever calls interleave, die or
\* lose their answer, a session's token is taken once before another is
\* given, and a session whose token a logout took gets no other.
Ledger == INSTANCE SessionLedger WITH
    live <- [s \in Tokens |-> {t \in Tokens : Exists(t) /\ root[t] = s /\ revokedBy[t] = NoCall}],
    spent <- {t \in Tokens : revokedBy[t] # NoCall},
    closed <- {root[t] : t \in {u \in Tokens : ClosedByLogout(u)}}
KeepsTheLedger == Ledger!Spec
=============================================================================
