------------------------ MODULE NotificationsProofs ------------------------
(***************************************************************************)
(* What TLAPS proves of Notifications, for every set of messages, status   *)
(* calls and sockets.                                                      *)
(***************************************************************************)
EXTENDS Notifications, FiniteSetTheorems, TLAPS

-----------------------------------------------------------------------------
(* What is pending can be counted.                                         *)

LEMMA PendingIsCounted ==
    ASSUME TypeOK
    PROVE  Cardinality(pending) \in 0 .. Cardinality(Messages)
<1>1. IsFiniteSet(Messages) /\ pending \subseteq Messages
  BY NotificationsAssumption DEF TypeOK
<1>2. IsFiniteSet(pending) /\ Cardinality(pending) <= Cardinality(Messages)
  BY <1>1, FS_Subset
<1>3. Cardinality(pending) \in Nat /\ Cardinality(Messages) \in Nat
  BY <1>1, <1>2, FS_CardinalityType
<1> QED
  BY <1>2, <1>3

-----------------------------------------------------------------------------
(* Every step keeps each part of the invariant.                            *)

\* Variables keep their types, and only messages that are there are written.
LEMMA TypeKept ==
    ASSUME InboxInvariant, [Next]_vars
    PROVE  (TypeOK /\ WritesAreFound)'
<1>1. ASSUME NEW c \in Calls, FindMessage(c)
      PROVE  (TypeOK /\ WritesAreFound)'
  BY <1>1
  DEF InboxInvariant, TypeOK, WritesAreFound, FindMessage, Goto, inboxVars, socketVars
<1>2. ASSUME NEW c \in Calls, UpdateMessage(c)
      PROVE  (TypeOK /\ WritesAreFound)'
  BY <1>2
  DEF InboxInvariant, TypeOK, WritesAreFound, UpdateMessage, Goto, inboxVars, socketVars
<1>3. ASSUME NEW c \in Calls, CountMessages(c)
      PROVE  (TypeOK /\ WritesAreFound)'
  BY <1>3, PendingIsCounted
  DEF InboxInvariant, TypeOK, WritesAreFound, CountMessages, Goto, socketVars
<1>4. ASSUME NEW c \in Calls, EmitCount(c)
      PROVE  (TypeOK /\ WritesAreFound)'
  BY <1>4
  DEF InboxInvariant, TypeOK, WritesAreFound, EmitCount, Goto, Push, inboxVars,
      socketVars
<1>5. ASSUME NEW c \in Calls, CallFails(c)
      PROVE  (TypeOK /\ WritesAreFound)'
  BY <1>5 DEF InboxInvariant, TypeOK, WritesAreFound, CallFails, inboxVars, socketVars
<1>6. ASSUME NEW m \in Messages, StoreMessage(m)
      PROVE  (TypeOK /\ WritesAreFound)'
  BY <1>6
  DEF InboxInvariant, TypeOK, WritesAreFound, StoreMessage, inboxVars, socketVars
<1>7. ASSUME NEW m \in Messages, AnnounceMessage(m)
      PROVE  (TypeOK /\ WritesAreFound)'
  BY <1>7
  DEF InboxInvariant, TypeOK, WritesAreFound, AnnounceMessage, Push, inboxVars,
      socketVars
<1>8. ASSUME NEW s \in Sockets, Connect(s)
      PROVE  (TypeOK /\ WritesAreFound)'
  BY <1>8
  DEF InboxInvariant, TypeOK, WritesAreFound, Connect, Enter, inboxVars, socketVars
<1>9. ASSUME NEW s \in Sockets, VerifyToken(s)
      PROVE  (TypeOK /\ WritesAreFound)'
  BY <1>9
  DEF InboxInvariant, TypeOK, WritesAreFound, VerifyToken, Enter, inboxVars, socketVars
<1>10. ASSUME NEW s \in Sockets, FindUser(s)
      PROVE  (TypeOK /\ WritesAreFound)'
  BY <1>10
  DEF InboxInvariant, TypeOK, WritesAreFound, FindUser, Enter, inboxVars, socketVars
<1>11. ASSUME NEW s \in Sockets, JoinRoom(s)
      PROVE  (TypeOK /\ WritesAreFound)'
  BY <1>11
  DEF InboxInvariant, TypeOK, WritesAreFound, JoinRoom, Enter, inboxVars, socketVars
<1>12. ASSUME NEW s \in Sockets, SetTimer(s)
      PROVE  (TypeOK /\ WritesAreFound)'
  BY <1>12
  DEF InboxInvariant, TypeOK, WritesAreFound, SetTimer, Enter, inboxVars, socketVars
<1>13. ASSUME NEW s \in Sockets, TurnAway(s)
      PROVE  (TypeOK /\ WritesAreFound)'
  BY <1>13
  DEF InboxInvariant, TypeOK, WritesAreFound, TurnAway, Enter, Drop, inboxVars,
      socketVars
<1>14. ASSUME NEW s \in Sockets, TimerFires(s)
      PROVE  (TypeOK /\ WritesAreFound)'
  BY <1>14
  DEF InboxInvariant, TypeOK, WritesAreFound, TimerFires, Drop, inboxVars, socketVars
<1>15. ASSUME NEW s \in Sockets, Leave(s)
      PROVE  (TypeOK /\ WritesAreFound)'
  BY <1>15
  DEF InboxInvariant, TypeOK, WritesAreFound, Leave, Drop, inboxVars, socketVars
<1>16. ASSUME NEW s \in Sockets, Expire(s)
      PROVE  (TypeOK /\ WritesAreFound)'
  BY <1>16 DEF InboxInvariant, TypeOK, WritesAreFound, Expire, inboxVars, socketVars
<1>17. ASSUME NEW s \in Sockets, SetActive(s)
      PROVE  (TypeOK /\ WritesAreFound)'
  BY <1>17 DEF InboxInvariant, TypeOK, WritesAreFound, SetActive, inboxVars, socketVars
<1>18. CASE UNCHANGED vars
  BY <1>18 DEF InboxInvariant, TypeOK, WritesAreFound, vars, inboxVars, socketVars
<1> QED
  BY <1>1, <1>2, <1>3, <1>4, <1>5, <1>6, <1>7, <1>8, <1>9, <1>10, <1>11, <1>12, <1>13,
      <1>14, <1>15, <1>16, <1>17, <1>18
  DEF Next, HandleConnection

\* Without trouble writers come one after the other, and a count holds until its push.
LEMMA WritersKept ==
    ASSUME InboxInvariant, [Next]_vars
    PROVE  (~ troubled => OneWriter /\ CountHolds)'
<1>1. ASSUME NEW c \in Calls, FindMessage(c)
      PROVE  (~ troubled => OneWriter /\ CountHolds)'
  BY <1>1
  DEF InboxInvariant, TypeOK, OneWriter, CountHolds, Midway, Quiet, FindMessage, Goto,
      inboxVars, socketVars
<1>2. ASSUME NEW c \in Calls, UpdateMessage(c)
      PROVE  (~ troubled => OneWriter /\ CountHolds)'
  BY <1>2
  DEF InboxInvariant, TypeOK, OneWriter, CountHolds, Midway, Quiet, UpdateMessage,
      Goto, inboxVars, socketVars
<1>3. ASSUME NEW c \in Calls, CountMessages(c)
      PROVE  (~ troubled => OneWriter /\ CountHolds)'
  BY <1>3
  DEF InboxInvariant, TypeOK, OneWriter, CountHolds, Midway, Quiet, CountMessages,
      Goto, inboxVars, socketVars
<1>4. ASSUME NEW c \in Calls, EmitCount(c)
      PROVE  (~ troubled => OneWriter /\ CountHolds)'
  BY <1>4
  DEF InboxInvariant, TypeOK, OneWriter, CountHolds, Midway, Quiet, EmitCount, Goto,
      Push, inboxVars, socketVars
<1>5. ASSUME NEW c \in Calls, CallFails(c)
      PROVE  (~ troubled => OneWriter /\ CountHolds)'
  BY <1>5
  DEF InboxInvariant, TypeOK, OneWriter, CountHolds, Midway, Quiet, CallFails,
      inboxVars, socketVars
<1>6. ASSUME NEW m \in Messages, StoreMessage(m)
      PROVE  (~ troubled => OneWriter /\ CountHolds)'
  BY <1>6
  DEF InboxInvariant, TypeOK, OneWriter, CountHolds, Midway, Quiet, StoreMessage,
      inboxVars, socketVars
<1>7. ASSUME NEW m \in Messages, AnnounceMessage(m)
      PROVE  (~ troubled => OneWriter /\ CountHolds)'
  BY <1>7
  DEF InboxInvariant, TypeOK, OneWriter, CountHolds, Midway, Quiet, AnnounceMessage,
      Push, inboxVars, socketVars
<1>8. CASE UNCHANGED <<inboxVars, troubled>>
  BY <1>8
  DEF InboxInvariant, TypeOK, OneWriter, CountHolds, Midway, Quiet, vars, inboxVars,
      socketVars
<1> QED
  BY <1>1, <1>2, <1>3, <1>4, <1>5, <1>6, <1>7, <1>8
  DEF Next, HandleConnection, vars, inboxVars, socketVars,
      Connect, VerifyToken, FindUser, JoinRoom, SetTimer, TurnAway, TimerFires, Leave,
          Expire, SetActive

\* What the gateway holds of a socket fits the handshake.
LEMMA SocketsKept ==
    ASSUME InboxInvariant, [Next]_vars
    PROVE  (\A t \in Sockets : SocketFits(t))'
<1>1. ASSUME NEW c \in Calls, EmitCount(c)
      PROVE  (\A t \in Sockets : SocketFits(t))'
  BY <1>1
  DEF InboxInvariant, TypeOK, SocketFits, Outside, EmitCount, Goto, Push, inboxVars,
      socketVars
<1>2. ASSUME NEW m \in Messages, AnnounceMessage(m)
      PROVE  (\A t \in Sockets : SocketFits(t))'
  BY <1>2
  DEF InboxInvariant, TypeOK, SocketFits, Outside, AnnounceMessage, Push, inboxVars,
      socketVars
<1>3. ASSUME NEW s \in Sockets, Connect(s)
      PROVE  (\A t \in Sockets : SocketFits(t))'
  BY <1>3
  DEF InboxInvariant, TypeOK, SocketFits, Outside, Connect, Enter, inboxVars, socketVars
<1>4. ASSUME NEW s \in Sockets, VerifyToken(s)
      PROVE  (\A t \in Sockets : SocketFits(t))'
  BY <1>4
  DEF InboxInvariant, TypeOK, SocketFits, Outside, VerifyToken, Enter, inboxVars,
      socketVars
<1>5. ASSUME NEW s \in Sockets, FindUser(s)
      PROVE  (\A t \in Sockets : SocketFits(t))'
  BY <1>5
  DEF InboxInvariant, TypeOK, SocketFits, Outside, FindUser, Enter, inboxVars,
      socketVars
<1>6. ASSUME NEW s \in Sockets, JoinRoom(s)
      PROVE  (\A t \in Sockets : SocketFits(t))'
  BY <1>6
  DEF InboxInvariant, TypeOK, SocketFits, Outside, JoinRoom, Enter, inboxVars,
      socketVars
<1>7. ASSUME NEW s \in Sockets, SetTimer(s)
      PROVE  (\A t \in Sockets : SocketFits(t))'
  BY <1>7
  DEF InboxInvariant, TypeOK, SocketFits, Outside, SetTimer, Enter, inboxVars,
      socketVars
<1>8. ASSUME NEW s \in Sockets, TurnAway(s)
      PROVE  (\A t \in Sockets : SocketFits(t))'
  BY <1>8
  DEF InboxInvariant, TypeOK, SocketFits, Outside, TurnAway, Enter, Drop, inboxVars,
      socketVars
<1>9. ASSUME NEW s \in Sockets, TimerFires(s)
      PROVE  (\A t \in Sockets : SocketFits(t))'
  BY <1>9
  DEF InboxInvariant, TypeOK, SocketFits, Outside, TimerFires, Drop, inboxVars,
      socketVars
<1>10. ASSUME NEW s \in Sockets, Leave(s)
      PROVE  (\A t \in Sockets : SocketFits(t))'
  BY <1>10
  DEF InboxInvariant, TypeOK, SocketFits, Outside, Leave, Drop, inboxVars, socketVars
<1>11. ASSUME NEW s \in Sockets, Expire(s)
      PROVE  (\A t \in Sockets : SocketFits(t))'
  BY <1>11
  DEF InboxInvariant, TypeOK, SocketFits, Outside, Expire, inboxVars, socketVars
<1>12. ASSUME NEW s \in Sockets, SetActive(s)
      PROVE  (\A t \in Sockets : SocketFits(t))'
  BY <1>12
  DEF InboxInvariant, TypeOK, SocketFits, Outside, SetActive, inboxVars, socketVars
<1>13. CASE UNCHANGED <<socketVars, shown>>
  BY <1>13 DEF InboxInvariant, TypeOK, SocketFits, Outside, vars, inboxVars, socketVars
<1> QED
  BY <1>1, <1>2, <1>3, <1>4, <1>5, <1>6, <1>7, <1>8, <1>9, <1>10, <1>11, <1>12, <1>13
  DEF Next, HandleConnection, vars, inboxVars, socketVars,
      FindMessage, UpdateMessage, CountMessages, CallFails, StoreMessage

\* No socket in the room is without a timer.
LEMMA ReceiversKept ==
    ASSUME InboxInvariant, [Next]_vars
    PROVE  ReceiversExpire'
<1>1. ASSUME NEW s \in Sockets, Connect(s)
      PROVE  ReceiversExpire'
  BY <1>1
  DEF InboxInvariant, TypeOK, ReceiversExpire, SocketFits, Outside, Connect, Enter,
      inboxVars, socketVars
<1>2. ASSUME NEW s \in Sockets, VerifyToken(s)
      PROVE  ReceiversExpire'
  BY <1>2
  DEF InboxInvariant, TypeOK, ReceiversExpire, SocketFits, Outside, VerifyToken, Enter,
      inboxVars, socketVars
<1>3. ASSUME NEW s \in Sockets, FindUser(s)
      PROVE  ReceiversExpire'
  BY <1>3
  DEF InboxInvariant, TypeOK, ReceiversExpire, SocketFits, Outside, FindUser, Enter,
      inboxVars, socketVars
<1>4. ASSUME NEW s \in Sockets, JoinRoom(s)
      PROVE  ReceiversExpire'
  BY <1>4
  DEF InboxInvariant, TypeOK, ReceiversExpire, SocketFits, Outside, JoinRoom, Enter,
      inboxVars, socketVars
<1>5. ASSUME NEW s \in Sockets, SetTimer(s)
      PROVE  ReceiversExpire'
  BY <1>5
  DEF InboxInvariant, TypeOK, ReceiversExpire, SocketFits, Outside, SetTimer, Enter,
      inboxVars, socketVars
<1>6. ASSUME NEW s \in Sockets, TurnAway(s)
      PROVE  ReceiversExpire'
  BY <1>6
  DEF InboxInvariant, TypeOK, ReceiversExpire, SocketFits, Outside, TurnAway, Enter,
      Drop, inboxVars, socketVars
<1>7. ASSUME NEW s \in Sockets, TimerFires(s)
      PROVE  ReceiversExpire'
  BY <1>7
  DEF InboxInvariant, TypeOK, ReceiversExpire, SocketFits, Outside, TimerFires, Drop,
      inboxVars, socketVars
<1>8. ASSUME NEW s \in Sockets, Leave(s)
      PROVE  ReceiversExpire'
  BY <1>8
  DEF InboxInvariant, TypeOK, ReceiversExpire, SocketFits, Outside, Leave, Drop,
      inboxVars, socketVars
<1>9. ASSUME NEW s \in Sockets, Expire(s)
      PROVE  ReceiversExpire'
  BY <1>9
  DEF InboxInvariant, TypeOK, ReceiversExpire, SocketFits, Outside, Expire, inboxVars,
      socketVars
<1>10. ASSUME NEW s \in Sockets, SetActive(s)
      PROVE  ReceiversExpire'
  BY <1>10
  DEF InboxInvariant, TypeOK, ReceiversExpire, SocketFits, Outside, SetActive,
      inboxVars, socketVars
<1>11. CASE UNCHANGED socketVars
  BY <1>11
  DEF InboxInvariant, TypeOK, ReceiversExpire, SocketFits, Outside, vars, inboxVars,
      socketVars
<1> QED
  BY <1>1, <1>2, <1>3, <1>4, <1>5, <1>6, <1>7, <1>8, <1>9, <1>10, <1>11
  DEF Next, HandleConnection, vars, inboxVars, socketVars,
      FindMessage, UpdateMessage, CountMessages, EmitCount, CallFails, StoreMessage,
          AnnounceMessage

\* No timer outlives its socket, those that left early apart.
LEMMA TimersKept ==
    ASSUME InboxInvariant, [Next]_vars
    PROVE  TimersAreCleared'
<1>1. ASSUME NEW s \in Sockets, Connect(s)
      PROVE  TimersAreCleared'
  BY <1>1
  DEF InboxInvariant, TypeOK, TimersAreCleared, SocketFits, Connect, Enter, inboxVars,
      socketVars
<1>2. ASSUME NEW s \in Sockets, VerifyToken(s)
      PROVE  TimersAreCleared'
  BY <1>2
  DEF InboxInvariant, TypeOK, TimersAreCleared, SocketFits, VerifyToken, Enter,
      inboxVars, socketVars
<1>3. ASSUME NEW s \in Sockets, FindUser(s)
      PROVE  TimersAreCleared'
  BY <1>3
  DEF InboxInvariant, TypeOK, TimersAreCleared, SocketFits, FindUser, Enter, inboxVars,
      socketVars
<1>4. ASSUME NEW s \in Sockets, JoinRoom(s)
      PROVE  TimersAreCleared'
  BY <1>4
  DEF InboxInvariant, TypeOK, TimersAreCleared, SocketFits, JoinRoom, Enter, inboxVars,
      socketVars
<1>5. ASSUME NEW s \in Sockets, SetTimer(s)
      PROVE  TimersAreCleared'
  BY <1>5
  DEF InboxInvariant, TypeOK, TimersAreCleared, SocketFits, SetTimer, Enter, inboxVars,
      socketVars
<1>6. ASSUME NEW s \in Sockets, TurnAway(s)
      PROVE  TimersAreCleared'
  BY <1>6
  DEF InboxInvariant, TypeOK, TimersAreCleared, SocketFits, TurnAway, Enter, Drop,
      inboxVars, socketVars
<1>7. ASSUME NEW s \in Sockets, TimerFires(s)
      PROVE  TimersAreCleared'
  BY <1>7
  DEF InboxInvariant, TypeOK, TimersAreCleared, SocketFits, TimerFires, Drop,
      inboxVars, socketVars
<1>8. ASSUME NEW s \in Sockets, Leave(s)
      PROVE  TimersAreCleared'
  BY <1>8
  DEF InboxInvariant, TypeOK, TimersAreCleared, SocketFits, Leave, Drop, inboxVars,
      socketVars
<1>9. ASSUME NEW s \in Sockets, Expire(s)
      PROVE  TimersAreCleared'
  BY <1>9
  DEF InboxInvariant, TypeOK, TimersAreCleared, SocketFits, Expire, inboxVars,
      socketVars
<1>10. ASSUME NEW s \in Sockets, SetActive(s)
      PROVE  TimersAreCleared'
  BY <1>10
  DEF InboxInvariant, TypeOK, TimersAreCleared, SocketFits, SetActive, inboxVars,
      socketVars
<1>11. CASE UNCHANGED socketVars
  BY <1>11
  DEF InboxInvariant, TypeOK, TimersAreCleared, SocketFits, vars, inboxVars, socketVars
<1> QED
  BY <1>1, <1>2, <1>3, <1>4, <1>5, <1>6, <1>7, <1>8, <1>9, <1>10, <1>11
  DEF Next, HandleConnection, vars, inboxVars, socketVars,
      FindMessage, UpdateMessage, CountMessages, EmitCount, CallFails, StoreMessage,
          AnnounceMessage

\* The count that the dashboards show settles.
LEMMA CountKept ==
    ASSUME InboxInvariant, [Next]_vars
    PROVE  CountSettles'
<1>1. ASSUME NEW c \in Calls, FindMessage(c)
      PROVE  CountSettles'
  BY <1>1
  DEF InboxInvariant, TypeOK, CountSettles, OneWriter, CountHolds, Midway, Quiet,
      SocketFits, Outside, FindMessage, Goto, inboxVars, socketVars
<1>2. ASSUME NEW c \in Calls, UpdateMessage(c)
      PROVE  CountSettles'
  BY <1>2
  DEF InboxInvariant, TypeOK, CountSettles, OneWriter, CountHolds, Midway, Quiet,
      SocketFits, Outside, UpdateMessage, Goto, inboxVars, socketVars
<1>3. ASSUME NEW c \in Calls, CountMessages(c)
      PROVE  CountSettles'
  BY <1>3
  DEF InboxInvariant, TypeOK, CountSettles, OneWriter, CountHolds, Midway, Quiet,
      SocketFits, Outside, CountMessages, Goto, inboxVars, socketVars
<1>4. ASSUME NEW c \in Calls, EmitCount(c)
      PROVE  CountSettles'
  BY <1>4
  DEF InboxInvariant, TypeOK, CountSettles, OneWriter, CountHolds, Midway, Quiet,
      SocketFits, Outside, EmitCount, Goto, Push, inboxVars, socketVars
<1>5. ASSUME NEW c \in Calls, CallFails(c)
      PROVE  CountSettles'
  BY <1>5
  DEF InboxInvariant, TypeOK, CountSettles, OneWriter, CountHolds, Midway, Quiet,
      SocketFits, Outside, CallFails, inboxVars, socketVars
<1>6. ASSUME NEW m \in Messages, StoreMessage(m)
      PROVE  CountSettles'
  BY <1>6
  DEF InboxInvariant, TypeOK, CountSettles, OneWriter, CountHolds, Midway, Quiet,
      SocketFits, Outside, StoreMessage, inboxVars, socketVars
<1>7. ASSUME NEW m \in Messages, AnnounceMessage(m)
      PROVE  CountSettles'
  BY <1>7
  DEF InboxInvariant, TypeOK, CountSettles, OneWriter, CountHolds, Midway, Quiet,
      SocketFits, Outside, AnnounceMessage, Push, inboxVars, socketVars
<1>8. ASSUME NEW s \in Sockets, Connect(s)
      PROVE  CountSettles'
  BY <1>8
  DEF InboxInvariant, TypeOK, CountSettles, OneWriter, CountHolds, Midway, Quiet,
      SocketFits, Outside, Connect, Enter, inboxVars, socketVars
<1>9. ASSUME NEW s \in Sockets, VerifyToken(s)
      PROVE  CountSettles'
  BY <1>9
  DEF InboxInvariant, TypeOK, CountSettles, OneWriter, CountHolds, Midway, Quiet,
      SocketFits, Outside, VerifyToken, Enter, inboxVars, socketVars
<1>10. ASSUME NEW s \in Sockets, FindUser(s)
      PROVE  CountSettles'
  BY <1>10
  DEF InboxInvariant, TypeOK, CountSettles, OneWriter, CountHolds, Midway, Quiet,
      SocketFits, Outside, FindUser, Enter, inboxVars, socketVars
<1>11. ASSUME NEW s \in Sockets, JoinRoom(s)
      PROVE  CountSettles'
  BY <1>11
  DEF InboxInvariant, TypeOK, CountSettles, OneWriter, CountHolds, Midway, Quiet,
      SocketFits, Outside, JoinRoom, Enter, inboxVars, socketVars
<1>12. ASSUME NEW s \in Sockets, SetTimer(s)
      PROVE  CountSettles'
  BY <1>12
  DEF InboxInvariant, TypeOK, CountSettles, OneWriter, CountHolds, Midway, Quiet,
      SocketFits, Outside, SetTimer, Enter, inboxVars, socketVars
<1>13. ASSUME NEW s \in Sockets, TurnAway(s)
      PROVE  CountSettles'
  BY <1>13
  DEF InboxInvariant, TypeOK, CountSettles, OneWriter, CountHolds, Midway, Quiet,
      SocketFits, Outside, TurnAway, Enter, Drop, inboxVars, socketVars
<1>14. ASSUME NEW s \in Sockets, TimerFires(s)
      PROVE  CountSettles'
  BY <1>14
  DEF InboxInvariant, TypeOK, CountSettles, OneWriter, CountHolds, Midway, Quiet,
      SocketFits, Outside, TimerFires, Drop, inboxVars, socketVars
<1>15. ASSUME NEW s \in Sockets, Leave(s)
      PROVE  CountSettles'
  BY <1>15
  DEF InboxInvariant, TypeOK, CountSettles, OneWriter, CountHolds, Midway, Quiet,
      SocketFits, Outside, Leave, Drop, inboxVars, socketVars
<1>16. ASSUME NEW s \in Sockets, Expire(s)
      PROVE  CountSettles'
  BY <1>16
  DEF InboxInvariant, TypeOK, CountSettles, OneWriter, CountHolds, Midway, Quiet,
      SocketFits, Outside, Expire, inboxVars, socketVars
<1>17. ASSUME NEW s \in Sockets, SetActive(s)
      PROVE  CountSettles'
  BY <1>17
  DEF InboxInvariant, TypeOK, CountSettles, OneWriter, CountHolds, Midway, Quiet,
      SocketFits, Outside, SetActive, inboxVars, socketVars
<1>18. CASE UNCHANGED vars
  BY <1>18
  DEF InboxInvariant, TypeOK, CountSettles, OneWriter, CountHolds, Midway, Quiet,
      SocketFits, Outside, vars, inboxVars, socketVars
<1> QED
  BY <1>1, <1>2, <1>3, <1>4, <1>5, <1>6, <1>7, <1>8, <1>9, <1>10, <1>11, <1>12, <1>13,
      <1>14, <1>15, <1>16, <1>17, <1>18
  DEF Next, HandleConnection

-----------------------------------------------------------------------------
(* The theorems.                                                           *)

\* The inductive invariant: the updates and creations of messages that do not
\* overlap push what they have counted, and the gateway holds of each socket
\* what its handshake has come to.
THEOREM InboxSafe == Spec => []InboxInvariant
<1>1. Init => InboxInvariant
  <2> SUFFICES ASSUME Init PROVE InboxInvariant
    OBVIOUS
  <2>1. TypeOK
    <3>1. Cardinality(Messages) \in Nat
      BY NotificationsAssumption, FS_CardinalityType
    <3>2. 0 \in 0 .. Cardinality(Messages)
      BY <3>1
    <3>3. count \in [Calls -> 0 .. Cardinality(Messages)]
      BY <3>2 DEF Init
    <3>4. phase \in [Calls -> {"idle", "update", "count", "emit", "done"}]
      BY DEF Init
    <3>5. stage \in [Sockets -> {"away", "verify", "user", "join", "joined", "settled"}]
      BY DEF Init
    <3>6. shown \in [Sockets -> 0 .. Cardinality(Messages) \cup {Unknown}]
      BY DEF Init
    <3> QED
      BY <3>3, <3>4, <3>5, <3>6 DEF Init, TypeOK
  <2> QED
    BY <2>1
    DEF Init, InboxInvariant, WritesAreFound, OneWriter, CountHolds, Midway,
        SocketFits, Outside,
                CountSettles, ReceiversExpire, TimersAreCleared
<1>2. InboxInvariant /\ [Next]_vars => InboxInvariant'
  <2> SUFFICES ASSUME InboxInvariant, [Next]_vars PROVE InboxInvariant'
    OBVIOUS
  <2> QED
    BY TypeKept, WritersKept, SocketsKept, ReceiversKept, TimersKept, CountKept
    DEF InboxInvariant
<1> QED
  BY <1>1, <1>2, PTL DEF Spec

\* Every variable of the notifications keeps its type.
THEOREM TypeCorrect == Spec => []TypeOK
<1>1. InboxInvariant => TypeOK
  BY DEF InboxInvariant
<1> QED
  BY <1>1, InboxSafe, PTL

\* Dashboards show the number of pending messages when nothing is under way,
\* unless writers have overlapped or failed (updateStatus).
THEOREM CountsSettle == Spec => []CountSettles
<1>1. InboxInvariant => CountSettles
  BY DEF InboxInvariant
<1> QED
  BY <1>1, InboxSafe, PTL

\* Whatever the socket or its account does between the awaits of the
\* handshake, it is never in the room without a timer (handleConnection).
THEOREM ReceiversHaveTimers == Spec => []ReceiversExpire
<1>1. InboxInvariant => ReceiversExpire
  BY DEF InboxInvariant
<1> QED
  BY <1>1, InboxSafe, PTL

\* Only a socket that leaves during its handshake leaves a timer behind
\* (handleDisconnect).
THEOREM TimersGoWithSockets == Spec => []TimersAreCleared
<1>1. InboxInvariant => TimersAreCleared
  BY DEF InboxInvariant
<1> QED
  BY <1>1, InboxSafe, PTL
=============================================================================
