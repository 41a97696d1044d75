------------------------- MODULE AuthSessionsProofs -------------------------
(***************************************************************************)
(* What TLAPS proves of AuthSessions, for every set of accounts, tokens    *)
(* and simultaneous calls.                                                 *)
(***************************************************************************)
EXTENDS AuthSessions, TLAPS

USE SessionsAssumption

\* The steps that change no table and only move a call along, and those that
\* end it without a session.
MovesOn(c) ==
    \/ FindUser(c) \/ PasswordMatches(c) \/ Lookup(c) \/ SecretMatches(c) \/ Reread(c)
Fails(c) ==
    \/ LoginRefused(c) \/ TokenRefused(c) \/ RefreshLosesRace(c) \/ RefreshRefused(c)
    \/ Dies(c)

\* The next-state relation, split the way the proofs split it.
LEMMA NextCases ==
    ASSUME Next
    PROVE  \/ \E c \in Calls :
                \/ \E u \in Users : Login(c, u)
                \/ \E o \in {"refresh", "logout"}, t \in Tokens : Present(c, o, t)
                \/ MovesOn(c) \/ Fails(c) \/ RevokeForRefresh(c) \/ RevokeForLogout(c)
                \/ \E t \in Tokens : InsertToken(c, t)
                \/ Answer(c)
           \/ \E u \in Users : SetActive(u)
           \/ \E t \in Tokens : Expire(t)
BY DEF Next, Arrives, Step, MovesOn, Fails

LEMMA SessionsInvariantInit == Init => SessionsInvariant
BY DEF Init, SessionsInvariant, TypeOK, Phases, CallFits, TokenFits, HeirIsMinted,
       SessionInOnePlace, GroundsKnown, ExchangedOnce, OneLiveTokenPerSession,
       LogoutLeavesNoHeir, NoSessionOnStaleGrounds, Exists, Usable, Exchanging

LEMMA SessionsInvariantStep == SessionsInvariant /\ [Next]_vars => SessionsInvariant'
<1> SUFFICES ASSUME SessionsInvariant, [Next]_vars PROVE SessionsInvariant'
  OBVIOUS
<1> USE DEF SessionsInvariant, TypeOK, CallFits, TokenFits, HeirIsMinted,
       SessionInOnePlace, GroundsKnown, ExchangedOnce, OneLiveTokenPerSession,
       LogoutLeavesNoHeir, NoSessionOnStaleGrounds, Exists, Usable, Exchanging
<1>0. CASE UNCHANGED vars
  BY <1>0 DEF vars, dbVars, callVars, historyVars
<1> USE DEF dbVars, callVars, historyVars, Goto, Begin, Witness, Finish, Deny, Phases
<1>1. ASSUME NEW c \in Calls, NEW u \in Users, Login(c, u)
      PROVE  SessionsInvariant'
  BY <1>1 DEF Login
<1>2. ASSUME NEW c \in Calls, NEW o \in {"refresh", "logout"}, NEW t \in Tokens, Present(c, o, t)
      PROVE  SessionsInvariant'
  <2>1. /\ phase[c] = "idle" /\ t \in delivered /\ Exists(t)
        /\ phase' = [phase EXCEPT ![c] = "lookup"]
        /\ op' = [op EXCEPT ![c] = o]
        /\ token' = [token EXCEPT ![c] = t]
        /\ user' = [user EXCEPT ![c] = owner[t]]
        /\ seenActive' = IF active[owner[t]] THEN seenActive \cup {c} ELSE seenActive
        /\ deadOnArrival' = IF Usable(t) THEN deadOnArrival ELSE deadOnArrival \cup {c}
        /\ UNCHANGED <<active, owner, revokedBy, expired, minted, result, delivered, parent, root>>
    BY <1>2 DEF Present
  <2>2. TypeOK' /\ CallFits' /\ TokenFits'
    BY <2>1
  <2>3. HeirIsMinted' /\ SessionInOnePlace'
    BY <2>1
  <2>4. GroundsKnown'
    BY <2>1
  <2>5. result[c] = "none"
    BY <2>1
  <2>6. ExchangedOnce' /\ OneLiveTokenPerSession' /\ LogoutLeavesNoHeir'
    BY <2>1
  <2>7. NoSessionOnStaleGrounds'
    BY <2>1, <2>5
  <2> QED
    BY <2>2, <2>3, <2>4, <2>6, <2>7
<1>3. ASSUME NEW c \in Calls, MovesOn(c)
      PROVE  SessionsInvariant'
  <2>1. CASE FindUser(c)
    BY <2>1 DEF FindUser
  <2>2. CASE PasswordMatches(c)
    BY <2>2 DEF PasswordMatches
  <2>3. CASE Lookup(c)
    BY <2>3 DEF Lookup
  <2>4. CASE SecretMatches(c)
    BY <2>4 DEF SecretMatches
  <2>5. CASE Reread(c)
    BY <2>5 DEF Reread
  <2> QED
    BY <1>3, <2>1, <2>2, <2>3, <2>4, <2>5 DEF MovesOn
<1>4. ASSUME NEW c \in Calls, Fails(c)
      PROVE  SessionsInvariant'
  <2>1. PICK r \in {"denied", "error"} :
           /\ phase[c] # "idle"
           /\ phase' = [phase EXCEPT ![c] = "done"]
           /\ result' = [result EXCEPT ![c] = r]
           /\ UNCHANGED <<dbVars, op, user, token, minted, delivered, historyVars>>
    BY <1>4 DEF Fails, LoginRefused, TokenRefused, RefreshLosesRace, RefreshRefused, Dies
  <2> QED
    BY <2>1
<1>5. ASSUME NEW c \in Calls, RevokeForRefresh(c)
      PROVE  SessionsInvariant'
  BY <1>5 DEF RevokeForRefresh
<1>6. ASSUME NEW c \in Calls, RevokeForLogout(c)
      PROVE  SessionsInvariant'
  BY <1>6 DEF RevokeForLogout
<1>7. ASSUME NEW c \in Calls, NEW t \in Tokens, InsertToken(c, t)
      PROVE  SessionsInvariant'
  <2>1. /\ phase[c] = "insert" /\ ~ Exists(t) /\ op[c] \in {"login", "refresh"}
        /\ user[c] \in Users
        /\ phase' = [phase EXCEPT ![c] = "answer"]
        /\ owner' = [owner EXCEPT ![t] = user[c]]
        /\ parent' = [parent EXCEPT ![t] = token[c]]
        /\ root' = [root EXCEPT ![t] = IF op[c] = "login" THEN t ELSE root[token[c]]]
        /\ minted' = [minted EXCEPT ![c] = t]
        /\ UNCHANGED <<active, revokedBy, expired, op, user, token, result, delivered,
                       deadOnArrival, seenActive>>
    BY <1>7 DEF InsertToken
  <2>2. \A s \in Tokens : Exists(s)' <=> (Exists(s) \/ s = t)
    BY <2>1
  <2>3. /\ op[c] = "refresh" => token[c] \in Tokens \ {t} /\ revokedBy[token[c]] = c
        /\ op[c] = "login" => token[c] = NoToken
        /\ revokedBy[t] = NoCall /\ minted[c] = NoToken
        /\ \A d \in Calls : token[d] # t /\ minted[d] # t
        /\ \A s \in Tokens : parent[s] # t
    BY <2>1
  <2>4. TypeOK' /\ CallFits'
    BY <2>1, <2>2, <2>3
  <2>5. TokenFits'
    BY <2>1, <2>2, <2>3
  <2>6. HeirIsMinted'
    BY <2>1, <2>3
  <2>7. \A d \in Calls : Exchanging(d)' <=> (Exchanging(d) /\ d # c)
    BY <2>1
  <2>8. \A d \in Calls : op[d] = "refresh" => root'[token[d]] = root[token[d]]
    BY <2>1, <2>3
  <2>9. \A s \in Tokens \ {t} : root'[s] = root[s] /\ (Exists(s) => root[s] # t)
    BY <2>1
  <2>10. \A d \in Calls : op[d] = "refresh" => root[token[d]] # t
    BY <2>3, <2>9
  <2>11. SessionInOnePlace'
    <3>1. ASSUME NEW d \in Calls, NEW s \in Tokens,
                 Exchanging(d)', Exists(s)', revokedBy'[s] = NoCall
          PROVE  root'[s] # root'[token'[d]]
      <4>1. Exchanging(d) /\ d # c /\ token'[d] = token[d] /\ root'[token[d]] = root[token[d]]
        BY <2>1, <2>7, <2>8, <3>1
      <4>2. CASE s = t /\ op[c] = "refresh"
        <5>1. Exchanging(c) /\ root'[t] = root[token[c]]
          BY <2>1, <4>2
        <5> QED
          BY <4>1, <4>2, <5>1
      <4>3. CASE s = t /\ op[c] = "login"
        BY <2>1, <2>10, <4>1, <4>3
      <4>4. CASE s # t
        BY <2>1, <2>2, <2>9, <3>1, <4>1, <4>4
      <4> QED
        BY <2>1, <4>2, <4>3, <4>4
    <3>2. ASSUME NEW d \in Calls, NEW e \in Calls, Exchanging(d)', Exchanging(e)',
                 root'[token'[d]] = root'[token'[e]]
          PROVE  d = e
      BY <2>1, <2>7, <2>8, <3>2
    <3> QED
      BY <3>1, <3>2
  <2>12. GroundsKnown'
    BY <2>1, <2>2, <2>3
  <2>13. ExchangedOnce'
    <3>1. op[c] = "refresh" => \A s \in Tokens : parent[s] # token[c]
      BY <2>1, <2>3
    <3> QED
      BY <2>1, <2>3, <3>1
  <2>14. OneLiveTokenPerSession'
    <3>1. ASSUME NEW s \in Tokens \ {t}, Exists(s), revokedBy[s] = NoCall
          PROVE  root'[s] # root'[t]
      <4>1. CASE op[c] = "refresh"
        <5>1. Exchanging(c) /\ root'[t] = root[token[c]]
          BY <2>1, <4>1
        <5> QED
          BY <2>9, <3>1, <5>1
      <4>2. CASE op[c] = "login"
        BY <2>1, <2>9, <3>1, <4>2
      <4> QED
        BY <2>1, <4>1, <4>2
    <3> QED
      BY <2>1, <2>2, <2>9, <3>1
  <2>15. LogoutLeavesNoHeir'
    BY <2>1, <2>3
  <2>16. NoSessionOnStaleGrounds'
    BY <2>1
  <2> QED
    BY <2>4, <2>5, <2>6, <2>11, <2>12, <2>13, <2>14, <2>15, <2>16
<1>8. ASSUME NEW c \in Calls, Answer(c)
      PROVE  SessionsInvariant'
  BY <1>8 DEF Answer
<1>9. ASSUME NEW u \in Users, SetActive(u)
      PROVE  SessionsInvariant'
  BY <1>9 DEF SetActive
<1>10. ASSUME NEW t \in Tokens, Expire(t)
       PROVE  SessionsInvariant'
  BY <1>10 DEF Expire
<1> HIDE DEF SessionsInvariant, TypeOK, CallFits, TokenFits, HeirIsMinted,
       SessionInOnePlace, GroundsKnown, ExchangedOnce, OneLiveTokenPerSession,
       LogoutLeavesNoHeir, NoSessionOnStaleGrounds, Exists, Usable, Exchanging
<1> QED
  BY <1>0, <1>1, <1>2, <1>3, <1>4, <1>5, <1>6, <1>7, <1>8, <1>9, <1>10, NextCases

\* Sessions stay what they should be, whatever calls interleave, die or lose
\* their answer.
THEOREM SessionsSafe == Spec => []SessionsInvariant
BY SessionsInvariantInit, SessionsInvariantStep, PTL DEF Spec

\* A refresh token is exchanged at most once.
THEOREM RefreshIsSingleUse == Spec => []ExchangedOnce
<1>1. SessionsInvariant => ExchangedOnce
  BY DEF SessionsInvariant
<1> QED
  BY <1>1, SessionsSafe, PTL

\* Rotation never leaves a session with two live tokens.
THEOREM RotationNeverForks == Spec => []OneLiveTokenPerSession
<1>1. SessionsInvariant => OneLiveTokenPerSession
  BY DEF SessionsInvariant
<1> QED
  BY <1>1, SessionsSafe, PTL

\* A token that a logout revoked is never exchanged.
THEOREM LogoutIsFinal == Spec => []LogoutLeavesNoHeir
<1>1. SessionsInvariant => LogoutLeavesNoHeir
  BY DEF SessionsInvariant
<1> QED
  BY <1>1, SessionsSafe, PTL

\* No session is given on grounds that were gone before the call arrived.
THEOREM GroundsAreChecked == Spec => []NoSessionOnStaleGrounds
<1>1. SessionsInvariant => NoSessionOnStaleGrounds
  BY DEF SessionsInvariant
<1> QED
  BY <1>1, SessionsSafe, PTL

-----------------------------------------------------------------------------
(* The ledger.                                                             *)

\* What the steps that neither revoke nor store a token leave alone.
LedgerStands ==
    /\ UNCHANGED <<owner, revokedBy, root>>
    /\ \A t \in Tokens : ClosedByLogout(t)' <=> ClosedByLogout(t)
    /\ \A c \in Calls : Exchanging(c)' => Exchanging(c) /\ token'[c] = token[c]

\* What the others do to it: a refresh takes a token, a logout takes one, a
\* call gives one.
Takes(c, o) ==
    /\ op[c] = o /\ phase[c] = "revoke" /\ revokedBy[token[c]] = NoCall
    /\ revokedBy' = [revokedBy EXCEPT ![token[c]] = c]
    /\ UNCHANGED <<owner, root, op, token>>
    /\ \A d \in Calls : Exchanging(d)' => Exchanging(d) \/ (d = c /\ o = "refresh")

Gives(c, t) ==
    /\ ~ Exists(t)
    /\ op[c] = "login" \/ Exchanging(c)
    /\ owner' = [owner EXCEPT ![t] = user[c]]
    /\ root' = [root EXCEPT ![t] = IF op[c] = "login" THEN t ELSE root[token[c]]]
    /\ UNCHANGED <<revokedBy, op, token>>
    /\ \A d \in Calls : Exchanging(d)' => Exchanging(d)

LEMMA LedgerCases ==
    ASSUME SessionsInvariant, [Next]_vars
    PROVE  \/ LedgerStands
           \/ \E c \in Calls : \/ \E o \in {"refresh", "logout"} : Takes(c, o)
                               \/ \E t \in Tokens : Gives(c, t)
<1> USE DEF SessionsInvariant, TypeOK, CallFits, TokenFits, ClosedByLogout, Exchanging,
            dbVars, callVars, historyVars, Goto, Begin, Finish, Deny
<1>0. CASE UNCHANGED vars
  BY <1>0 DEF vars, LedgerStands
<1>1. ASSUME NEW c \in Calls, NEW u \in Users, Login(c, u) PROVE LedgerStands
  BY <1>1 DEF Login, LedgerStands
<1>2. ASSUME NEW c \in Calls, NEW o \in {"refresh", "logout"}, NEW t \in Tokens, Present(c, o, t)
      PROVE  LedgerStands
  BY <1>2 DEF Present, LedgerStands
<1>3. ASSUME NEW c \in Calls, MovesOn(c) PROVE LedgerStands
  BY <1>3 DEF MovesOn, FindUser, PasswordMatches, Lookup, SecretMatches, Reread, LedgerStands
<1>4. ASSUME NEW c \in Calls, Fails(c) \/ Answer(c) PROVE LedgerStands
  BY <1>4 DEF Fails, LoginRefused, TokenRefused, RefreshLosesRace, RefreshRefused, Dies,
              Answer, LedgerStands
<1>5. ASSUME NEW c \in Calls, RevokeForRefresh(c) PROVE Takes(c, "refresh")
  BY <1>5 DEF RevokeForRefresh, Takes
<1>6. ASSUME NEW c \in Calls, RevokeForLogout(c) PROVE LedgerStands \/ Takes(c, "logout")
  BY <1>6 DEF RevokeForLogout, Takes, LedgerStands
<1>7. ASSUME NEW c \in Calls, NEW t \in Tokens, InsertToken(c, t) PROVE Gives(c, t)
  BY <1>7 DEF InsertToken, Gives
<1>8. ASSUME NEW u \in Users, SetActive(u) PROVE LedgerStands
  BY <1>8 DEF SetActive, LedgerStands
<1>9. ASSUME NEW t \in Tokens, Expire(t) PROVE LedgerStands
  BY <1>9 DEF Expire, LedgerStands
<1> QED
  BY <1>0, <1>1, <1>2, <1>3, <1>4, <1>5, <1>6, <1>7, <1>8, <1>9, NextCases

\* Taking the token of a session: the token is the only one the session has,
\* and no refresh of the session is under way.
LEMMA TakenAlone ==
    ASSUME SessionsInvariant, NEW c \in Calls, NEW o \in {"refresh", "logout"}, Takes(c, o)
    PROVE  /\ token[c] \in Tokens /\ Exists(token[c]) /\ root[token[c]] \in Tokens
           /\ \A t \in Tokens : (Exists(t) /\ root[t] = root[token[c]] /\ revokedBy[t] = NoCall)
                                   => t = token[c]
           /\ \A d \in Calls : Exchanging(d) => root[token[d]] # root[token[c]]
BY DEF Takes, SessionsInvariant, TypeOK, CallFits, TokenFits, SessionInOnePlace,
       OneLiveTokenPerSession

LEMMA LedgerInvariantInit == Init => LedgerInvariant
BY DEF Init, LedgerInvariant, ClosedStaysClosed, RootsAreRoots, ClosedByLogout, Exists

LEMMA LedgerInvariantStep ==
    SessionsInvariant /\ LedgerInvariant /\ [Next]_vars => LedgerInvariant'
<1> SUFFICES ASSUME SessionsInvariant, LedgerInvariant, [Next]_vars PROVE LedgerInvariant'
  OBVIOUS
<1>1. CASE LedgerStands
  BY <1>1 DEF LedgerStands, LedgerInvariant, ClosedStaysClosed, RootsAreRoots, Exists
<1>2. ASSUME NEW c \in Calls, NEW o \in {"refresh", "logout"}, Takes(c, o)
      PROVE  LedgerInvariant'
  <2> DEFINE k == token[c]
  <2>1. /\ k \in Tokens /\ Exists(k)
        /\ \A t \in Tokens : (Exists(t) /\ root[t] = root[k] /\ revokedBy[t] = NoCall) => t = k
        /\ \A d \in Calls : Exchanging(d) => root[token[d]] # root[k]
    BY <1>2, TakenAlone
  <2>2. /\ op[c] = o /\ revokedBy[k] = NoCall
        /\ revokedBy' = [revokedBy EXCEPT ![k] = c]
        /\ UNCHANGED <<owner, root, op, token>>
        /\ \A d \in Calls : Exchanging(d)' => Exchanging(d) \/ (d = c /\ o = "refresh")
    BY <1>2 DEF Takes
  <2>3. \A t \in Tokens : revokedBy'[t] = IF t = k THEN c ELSE revokedBy[t]
    BY <2>1, <2>2 DEF SessionsInvariant, TypeOK
  <2>4. \A t \in Tokens : ClosedByLogout(t)' <=> (ClosedByLogout(t) \/ (t = k /\ o = "logout"))
    BY <2>2, <2>3 DEF ClosedByLogout
  <2>5. ASSUME NEW t \in Tokens, ClosedByLogout(t)'
        PROVE  /\ \A s \in Tokens : (Exists(s)' /\ root'[s] = root'[t]) => revokedBy'[s] # NoCall
               /\ \A d \in Calls : Exchanging(d)' => root'[token'[d]] # root'[t]
    <3>1. CASE t = k /\ o = "logout"
      BY <2>1, <2>2, <2>3, <3>1 DEF Exists
    <3>2. CASE ClosedByLogout(t)
      <4>1. root[k] # root[t]
        BY <2>1, <2>2, <3>2 DEF LedgerInvariant, ClosedStaysClosed
      <4> QED
        BY <2>1, <2>2, <2>3, <3>2, <4>1 DEF LedgerInvariant, ClosedStaysClosed, Exists
    <3> QED
      BY <2>4, <2>5, <3>1, <3>2
  <2>6. RootsAreRoots'
    BY <2>2, <2>3 DEF LedgerInvariant, RootsAreRoots, Exists, SessionsInvariant, TokenFits
  <2> QED
    BY <2>5, <2>6 DEF LedgerInvariant, ClosedStaysClosed
<1>3. ASSUME NEW c \in Calls, NEW t \in Tokens, Gives(c, t)
      PROVE  LedgerInvariant'
  <2>1. /\ ~ Exists(t) /\ revokedBy[t] = NoCall
        /\ UNCHANGED <<revokedBy, op, token>>
        /\ \A d \in Calls : Exchanging(d)' => Exchanging(d)
        /\ \A s \in Tokens \ {t} : (Exists(s)' <=> Exists(s)) /\ root'[s] = root[s]
    BY <1>3 DEF Gives, SessionsInvariant, TypeOK, TokenFits, Exists
  <2>2. \A s \in Tokens : Exists(s) => s # t /\ root[s] \in Tokens \ {t} /\ Exists(root[s])
    BY <2>1 DEF SessionsInvariant, TokenFits
  <2>3. \A d \in Calls : Exchanging(d) =>
            token[d] \in Tokens /\ Exists(token[d]) /\ revokedBy[token[d]] # NoCall
    BY SessionsAssumption DEF SessionsInvariant, CallFits, HeirIsMinted, Exchanging
  <2>4. root'[t] = t \/ (Exchanging(c) /\ root'[t] = root[token[c]])
    BY <1>3 DEF Gives, SessionsInvariant, TypeOK
  <2>5. \A s \in Tokens : ClosedByLogout(s)' <=> ClosedByLogout(s)
    BY <2>1 DEF ClosedByLogout
  <2>6. \A s \in Tokens : ClosedByLogout(s) => Exists(s)
    BY DEF ClosedByLogout, SessionsInvariant, TokenFits
  <2>7. ClosedStaysClosed'
    BY <2>1, <2>2, <2>3, <2>4, <2>5, <2>6 DEF LedgerInvariant, ClosedStaysClosed
  <2>8. RootsAreRoots'
    BY <2>1, <2>2, <2>3, <2>4 DEF LedgerInvariant, RootsAreRoots
  <2> QED
    BY <2>7, <2>8 DEF LedgerInvariant
<1> QED
  BY <1>1, <1>2, <1>3, LedgerCases

\* The ledger's variables as AuthSessions maps them.
live == [s \in Tokens |-> {t \in Tokens : Exists(t) /\ root[t] = s /\ revokedBy[t] = NoCall}]
spent == {t \in Tokens : revokedBy[t] # NoCall}
closed == {root[t] : t \in {u \in Tokens : ClosedByLogout(u)}}

LEMMA LiveIsAFunction ==
    /\ live = [u \in Tokens |-> live[u]]
    /\ live' = [u \in Tokens |-> live'[u]]
BY DEF live

LEMMA LedgerInit == Init => Ledger!Init
BY DEF Init, Ledger!Init, Exists, ClosedByLogout

\* Every step of the calls is one step of the ledger or none.
LEMMA LedgerStep ==
    SessionsInvariant /\ LedgerInvariant /\ [Next]_vars => [Ledger!Next]_Ledger!ledgerVars
<1> SUFFICES ASSUME SessionsInvariant, LedgerInvariant, [Next]_vars
             PROVE  (live' = live /\ spent' = spent /\ closed' = closed) \/ Ledger!Next
  BY DEF Ledger!ledgerVars, live, spent, closed
<1>1. CASE LedgerStands
  BY <1>1 DEF LedgerStands, live, spent, closed, Exists
<1>2. ASSUME NEW c \in Calls, NEW o \in {"refresh", "logout"}, Takes(c, o)
      PROVE  Ledger!Next
  <2> DEFINE k == token[c]
  <2>1. /\ k \in Tokens /\ Exists(k) /\ root[k] \in Tokens
        /\ \A t \in Tokens : (Exists(t) /\ root[t] = root[k] /\ revokedBy[t] = NoCall) => t = k
    BY <1>2, TakenAlone
  <2>2. /\ op[c] = o /\ revokedBy[k] = NoCall
        /\ revokedBy' = [revokedBy EXCEPT ![k] = c]
        /\ UNCHANGED <<owner, root, op, token>>
    BY <1>2 DEF Takes
  <2>3. \A t \in Tokens : revokedBy'[t] = IF t = k THEN c ELSE revokedBy[t]
    BY <2>1, <2>2 DEF SessionsInvariant, TypeOK
  <2>4. \A t \in Tokens : ClosedByLogout(t)' <=> (ClosedByLogout(t) \/ (t = k /\ o = "logout"))
    BY <2>2, <2>3 DEF ClosedByLogout
  <2>5. live[root[k]] = {k}
    BY <2>1, <2>2 DEF live
  <2>6. live' = [live EXCEPT ![root[k]] = {}]
    <3>1. ASSUME NEW u \in Tokens
          PROVE  live'[u] = IF u = root[k] THEN {} ELSE live[u]
      BY <2>1, <2>2, <2>3 DEF live, Exists, TypeOK, SessionsInvariant
    <3> QED
      BY <2>1, <3>1, LiveIsAFunction
  <2>7. spent' = spent \cup {k}
    BY <2>1, <2>3 DEF spent
  <2>8. closed' = IF o = "logout" THEN closed \cup {root[k]} ELSE closed
    BY <2>1, <2>2, <2>4 DEF closed
  <2> HIDE DEF k
  <2>9. CASE o = "refresh"
    BY <2>1, <2>5, <2>6, <2>7, <2>8, <2>9
       DEF Ledger!Next, Ledger!TakeToExchange, Ledger!Take, live, spent, closed
  <2>10. CASE o = "logout"
    BY <2>1, <2>5, <2>6, <2>7, <2>8, <2>10
       DEF Ledger!Next, Ledger!Close, Ledger!Take, live, spent, closed
  <2> QED
    BY <2>9, <2>10
<1>3. ASSUME NEW c \in Calls, NEW t \in Tokens, Gives(c, t)
      PROVE  Ledger!Next
  <2> DEFINE s == root'[t]
  <2>1. /\ ~ Exists(t) /\ revokedBy[t] = NoCall
        /\ UNCHANGED <<revokedBy, op, token>>
        /\ Exists(t)'
        /\ \A u \in Tokens \ {t} : (Exists(u)' <=> Exists(u)) /\ root'[u] = root[u]
    BY <1>3 DEF Gives, SessionsInvariant, TypeOK, TokenFits, CallFits, Exists, Exchanging
  <2>2. s \in Tokens /\ s = IF op[c] = "login" THEN t ELSE root[token[c]]
    BY <1>3 DEF Gives, SessionsInvariant, TypeOK, TokenFits, CallFits, Exchanging
  <2>3. \A u \in Tokens : ClosedByLogout(u)' <=> ClosedByLogout(u)
    BY <2>1 DEF ClosedByLogout
  <2>4. spent' = spent /\ closed' = closed
    BY <2>1, <2>3 DEF spent, closed, ClosedByLogout
  <2>5. t \notin spent /\ \A u \in Tokens : t \notin live[u]
    BY <2>1 DEF spent, live
  <2>6. live[s] = {}
    <3>1. CASE op[c] = "login"
      BY <2>1, <2>2, <3>1 DEF live, SessionsInvariant, TokenFits
    <3>2. CASE Exchanging(c)
      BY <2>2, <3>2 DEF live, SessionsInvariant, SessionInOnePlace, Exchanging
    <3> QED
      BY <1>3, <3>1, <3>2 DEF Gives
  <2>7. live' = [live EXCEPT ![s] = {t}]
    <3>1. ASSUME NEW u \in Tokens
          PROVE  live'[u] = IF u = s THEN {t} ELSE live[u]
      <4>1. CASE u = s
        <5>1. \A x \in Tokens : ~ (Exists(x) /\ root[x] = s /\ revokedBy[x] = NoCall)
          BY <2>2, <2>6 DEF live
        <5>2. \A x \in Tokens : (Exists(x)' /\ root'[x] = s /\ revokedBy'[x] = NoCall) <=> x = t
          BY <2>1, <5>1
        <5> QED
          BY <2>2, <4>1, <5>2 DEF live
      <4>2. CASE u # s
        BY <2>1, <2>2, <4>2 DEF live
      <4> QED
        BY <4>1, <4>2
    <3> QED
      BY <2>2, <3>1, LiveIsAFunction
  <2>8. CASE op[c] = "login"
    <3>1. s = t
      BY <2>2, <2>8
    <3> QED
      BY <2>4, <2>5, <2>6, <2>7, <3>1
         DEF Ledger!Next, Ledger!Open, Ledger!Fresh, live, spent, closed
  <2>9. CASE Exchanging(c)
    <3>1. token[c] \in Tokens /\ Exists(token[c]) /\ revokedBy[token[c]] # NoCall
      BY <2>9, SessionsAssumption DEF SessionsInvariant, CallFits, HeirIsMinted, Exchanging
    <3>2. s = root[token[c]]
      BY <2>2, <2>9 DEF Exchanging
    <3>3. s \in spent
      BY <2>2, <3>1, <3>2 DEF spent, LedgerInvariant, RootsAreRoots
    <3>4. s \notin closed
      BY <2>9, <3>2 DEF closed, LedgerInvariant, ClosedStaysClosed
    <3> HIDE DEF s
    <3> QED
      BY <2>2, <2>4, <2>5, <2>6, <2>7, <3>3, <3>4
         DEF Ledger!Next, Ledger!Give, Ledger!Fresh, live, spent, closed
  <2> QED
    BY <1>3, <2>8, <2>9 DEF Gives
<1> QED
  BY <1>1, <1>2, <1>3, LedgerCases

\* Rotation implements the ledger of sessions: a token is taken once before
\* another is given, and a session that a logout closed is never given one.
THEOREM RotationKeepsTheLedger == Spec => KeepsTheLedger
<1>1. Spec => [](SessionsInvariant /\ LedgerInvariant)
  BY SessionsInvariantInit, SessionsInvariantStep, LedgerInvariantInit, LedgerInvariantStep, PTL
     DEF Spec
<1> QED
  BY <1>1, LedgerInit, LedgerStep, PTL DEF Spec, KeepsTheLedger, Ledger!Spec
=============================================================================
