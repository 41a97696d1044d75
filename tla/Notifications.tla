--------------------------- MODULE Notifications ---------------------------
(***************************************************************************)
(* The pushes to the dashboards: NotificationsGateway, which lets sockets  *)
(* into a room and shuts them out when their access token expires, and     *)
(* ContactService.updateStatus, which writes the status of a message,      *)
(* counts the pending ones and pushes the count, each in a statement of    *)
(* its own.  The handshake of a socket gives way at each await, and the    *)
(* socket may be gone when it goes on.                                     *)
(***************************************************************************)
EXTENDS Integers, FiniteSets

CONSTANTS Messages,
          Calls,     \* PATCH /contact/:id/status
          Sockets,   \* connections; each comes once
          Unknown    \* a dashboard has no count that holds

ASSUME NotificationsAssumption == IsFiniteSet(Messages)

VARIABLES
    \* The database.
    stored,      \* contact_messages
    pending,     \* those whose status is NEW
    inactive,    \* sockets whose account is switched off
    \* The calls.
    phase, message, status, count,
    unannounced, \* messages stored whose creation has not been pushed yet
    \* The gateway.
    stage,       \* where handleConnection stands with each socket
    connected, room,
    timers,      \* expirationTimers
    expired,     \* sockets whose token has expired
    shown,       \* the count that each dashboard shows
    \* History.
    leftEarly,   \* sockets that left while handleConnection was at work
    troubled     \* calls have overlapped, or one died before its push

inboxVars == <<stored, pending, phase, message, status, count, unannounced>>
socketVars == <<inactive, stage, connected, room, timers, expired, leftEarly>>
vars == <<inboxVars, socketVars, shown, troubled>>

Init == /\ stored \in SUBSET Messages
        /\ pending \in SUBSET stored
        /\ inactive = {}
        /\ phase = [c \in Calls |-> "idle"]
        /\ message \in [Calls -> Messages]
        /\ status \in [Calls -> {"NEW", "READ"}]
        /\ count = [c \in Calls |-> 0]
        /\ unannounced = {}
        /\ stage = [s \in Sockets |-> "away"]
        /\ connected = {} /\ room = {} /\ timers = {} /\ expired = {}
        /\ shown = [s \in Sockets |-> Unknown]
        /\ leftEarly = {}
        /\ troubled = FALSE

-----------------------------------------------------------------------------
(* updateStatus.                                                           *)

Goto(c, from, to) == phase[c] = from /\ phase' = [phase EXCEPT ![c] = to]

\* The calls that have written and not pushed yet, and the messages likewise.
Midway == {c \in Calls : phase[c] \in {"count", "emit"}}
Quiet == Midway = {} /\ unannounced = {}

\* Mutant: whether the message exists is not looked at.
FindMessageUnchecked(c) ==
    /\ Goto(c, "idle", "update")
    /\ UNCHANGED <<stored, pending, message, status, count, unannounced, socketVars,
                   shown, troubled>>

FindMessage(c) ==
    /\ Goto(c, "idle", "update")
    /\ message[c] \in stored
    /\ UNCHANGED <<stored, pending, message, status, count, unannounced, socketVars,
                   shown, troubled>>

UpdateMessage(c) ==
    /\ Goto(c, "update", "count")
    /\ pending' = IF status[c] = "NEW" THEN pending \cup {message[c]}
                                      ELSE pending \ {message[c]}
    /\ troubled' = (troubled \/ ~ Quiet)
    /\ UNCHANGED <<stored, message, status, count, unannounced, socketVars, shown>>

\* Mutant: the message is counted before the update is.
CountMessagesBefore(c) ==
    /\ Goto(c, "count", "emit")
    /\ count' = [count EXCEPT ![c] = Cardinality(IF status[c] = "NEW"
                                                 THEN pending \ {message[c]}
                                                 ELSE pending \cup {message[c]})]
    /\ UNCHANGED <<stored, pending, message, status, unannounced, socketVars, shown, troubled>>

CountMessages(c) ==
    /\ Goto(c, "count", "emit")
    /\ count' = [count EXCEPT ![c] = Cardinality(pending)]
    /\ UNCHANGED <<stored, pending, message, status, unannounced, socketVars, shown, troubled>>

\* emitContactNotificationUpdated reaches the sockets in the room now.
Push(n) == shown' = [s \in Sockets |-> IF s \in room \cap connected THEN n ELSE shown[s]]

EmitCount(c) ==
    /\ Goto(c, "emit", "done")
    /\ Push(count[c])
    /\ UNCHANGED <<stored, pending, message, status, count, unannounced, socketVars, troubled>>

\* 404, a statement fails or the request dies.
CallFails(c) ==
    /\ phase[c] # "done"
    /\ phase' = [phase EXCEPT ![c] = "done"]
    /\ troubled' = (troubled \/ c \in Midway)
    /\ UNCHANGED <<stored, pending, message, status, count, unannounced, socketVars, shown>>

\* ContactService.create commits a message, and pushes its creation later:
\* the count that the dashboards show holds no more.
StoreMessage(m) ==
    /\ m \notin stored
    /\ stored' = stored \cup {m}
    /\ pending' = pending \cup {m}
    /\ unannounced' = unannounced \cup {m}
    /\ troubled' = (troubled \/ ~ Quiet)
    /\ UNCHANGED <<phase, message, status, count, socketVars, shown>>

AnnounceMessage(m) ==
    /\ m \in unannounced
    /\ unannounced' = unannounced \ {m}
    /\ Push(Unknown)
    /\ UNCHANGED <<stored, pending, phase, message, status, count, socketVars, troubled>>

-----------------------------------------------------------------------------
(* handleConnection and handleDisconnect.                                  *)

Enter(s, from, to) == stage[s] = from /\ stage' = [stage EXCEPT ![s] = to]

\* Mutant: handleDisconnect leaves the timer in the map.
DropKeepsTimer(s) ==
    /\ connected' = connected \ {s}
    /\ room' = room \ {s}
    /\ timers' = timers

\* The connection ends, from either side: socket.io takes the socket out of its
\* rooms and handleDisconnect clears its timer.  For a socket that is gone
\* already, client.disconnect does nothing.
Drop(s) ==
    /\ connected' = connected \ {s}
    /\ room' = IF s \in connected THEN room \ {s} ELSE room
    /\ timers' = IF s \in connected THEN timers \ {s} ELSE timers

Connect(s) ==
    /\ Enter(s, "away", "verify")
    /\ connected' = connected \cup {s}
    /\ UNCHANGED <<inactive, room, timers, expired, leftEarly, inboxVars, shown, troubled>>

VerifyToken(s) ==
    /\ Enter(s, "verify", "user")
    /\ s \notin expired
    /\ UNCHANGED <<inactive, connected, room, timers, expired, leftEarly, inboxVars, shown,
                   troubled>>

FindUser(s) ==
    /\ Enter(s, "user", "join")
    /\ s \notin inactive
    /\ UNCHANGED <<inactive, connected, room, timers, expired, leftEarly, inboxVars, shown,
                   troubled>>

\* Also a socket that has left meanwhile is put into the room.
JoinRoom(s) ==
    /\ Enter(s, "join", "joined")
    /\ room' = room \cup {s}
    /\ UNCHANGED <<inactive, connected, timers, expired, leftEarly, inboxVars, shown, troubled>>

\* Mutant: the token has run out and nothing follows from it.
SetTimerUnlessExpired(s) ==
    /\ Enter(s, "joined", "settled")
    /\ timers' = IF s \in expired THEN timers ELSE timers \cup {s}
    /\ UNCHANGED <<inactive, connected, room, expired, leftEarly, inboxVars, shown, troubled>>

SetTimer(s) ==
    /\ Enter(s, "joined", "settled")
    /\ s \notin expired
    /\ timers' = timers \cup {s}
    /\ UNCHANGED <<inactive, connected, room, expired, leftEarly, inboxVars, shown, troubled>>

\* Another origin, no valid token, an account that is missing or inactive, a
\* look-up that fails, or a token that has expired by now.
TurnAway(s) ==
    /\ \/ Enter(s, "verify", "settled")
       \/ Enter(s, "user", "settled")
       \/ Enter(s, "joined", "settled") /\ s \in expired
    /\ Drop(s)
    /\ UNCHANGED <<inactive, expired, leftEarly, inboxVars, shown, troubled>>

TimerFires(s) ==
    /\ s \in timers \cap expired \cap connected
    /\ Drop(s)
    /\ UNCHANGED <<inactive, stage, expired, leftEarly, inboxVars, shown, troubled>>

\* The browser goes, or the network does.
Leave(s) ==
    /\ s \in connected
    /\ Drop(s)
    /\ leftEarly' = IF stage[s] = "settled" THEN leftEarly ELSE leftEarly \cup {s}
    /\ UNCHANGED <<inactive, stage, expired, inboxVars, shown, troubled>>

\* Time passes; an administrator switches the account of the socket.
Expire(s) ==
    /\ s \notin expired
    /\ expired' = expired \cup {s}
    /\ UNCHANGED <<inactive, stage, connected, room, timers, leftEarly, inboxVars, shown,
                   troubled>>

SetActive(s) ==
    /\ stage[s] # "settled"
    /\ inactive' = IF s \in inactive THEN inactive \ {s} ELSE inactive \cup {s}
    /\ UNCHANGED <<stage, connected, room, timers, expired, leftEarly, inboxVars, shown, troubled>>

-----------------------------------------------------------------------------
HandleConnection(s) ==
    VerifyToken(s) \/ FindUser(s) \/ JoinRoom(s) \/ SetTimer(s) \/ TurnAway(s)

Next == \/ \E c \in Calls : \/ FindMessage(c) \/ UpdateMessage(c) \/ CountMessages(c)
                            \/ EmitCount(c) \/ CallFails(c)
        \/ \E m \in Messages : StoreMessage(m) \/ AnnounceMessage(m)
        \/ \E s \in Sockets : \/ Connect(s) \/ HandleConnection(s) \/ TimerFires(s)
                              \/ Leave(s) \/ Expire(s) \/ SetActive(s)

Spec == Init /\ [][Next]_vars

\* Every await is answered, and a timer that is due fires.
FairSpec == Spec /\ \A s \in Sockets : WF_vars(HandleConnection(s)) /\ WF_vars(TimerFires(s))

-----------------------------------------------------------------------------
(* Properties.                                                             *)

TypeOK ==
    /\ stored \subseteq Messages /\ pending \subseteq stored /\ unannounced \subseteq stored
    /\ inactive \subseteq Sockets /\ expired \subseteq Sockets
    /\ phase \in [Calls -> {"idle", "update", "count", "emit", "done"}]
    /\ message \in [Calls -> Messages]
    /\ status \in [Calls -> {"NEW", "READ"}]
    /\ count \in [Calls -> 0 .. Cardinality(Messages)]
    /\ stage \in [Sockets -> {"away", "verify", "user", "join", "joined", "settled"}]
    /\ connected \subseteq Sockets /\ room \subseteq Sockets /\ timers \subseteq Sockets
    /\ shown \in [Sockets -> 0 .. Cardinality(Messages) \cup {Unknown}]
    /\ leftEarly \subseteq Sockets
    /\ troubled \in BOOLEAN

\* Once nothing is under way, a dashboard that shows a pushed count shows the
\* number of pending messages, unless two writers overlapped (the older count
\* may be pushed last) or one failed between its write and its push.
CountSettles ==
    (Quiet /\ ~ troubled) =>
        \A s \in connected : shown[s] \in {Unknown, Cardinality(pending)}

\* A connected socket that receives pushes has a timer to end that, or the
\* handshake is about to set it.
ReceiversExpire == \A s \in room \cap connected : s \in timers \/ stage[s] = "joined"

\* The map of timers keeps only those of connected sockets, except for sockets
\* that left before the handshake was over: their timer is set after
\* handleDisconnect has cleared it, and nothing removes it any more.
TimersAreCleared == timers \subseteq connected \cup leftEarly

-----------------------------------------------------------------------------
(* What carries the three invariants.                                      *)

\* Without trouble one writer is at work at a time.
OneWriter ==
    /\ \A c, d \in Midway : c = d
    /\ \A m, n \in unannounced : m = n
    /\ Midway = {} \/ unannounced = {}

\* What a call has counted still holds when it comes to the push.
CountHolds == \A c \in Calls : phase[c] = "emit" => count[c] = Cardinality(pending)

\* A call writes a message that is there: messages are never deleted.
WritesAreFound == \A c \in Calls : phase[c] = "update" => message[c] \in stored

\* The handshake of s has not come to the room yet.
Outside(s) == stage[s] \in {"away", "verify", "user", "join"}

\* Where a socket stands in its handshake and what the gateway holds of it.
SocketFits(s) ==
    /\ Outside(s) => s \notin room /\ shown[s] = Unknown
    /\ s \in connected => s \in room \/ Outside(s)
    /\ s \in timers => stage[s] = "settled"
    /\ stage[s] \in {"verify", "user", "join", "joined"} => s \in connected \cup leftEarly

InboxInvariant ==
    /\ TypeOK /\ WritesAreFound
    /\ ~ troubled => OneWriter /\ CountHolds
    /\ \A s \in Sockets : SocketFits(s)
    /\ CountSettles /\ ReceiversExpire /\ TimersAreCleared

-----------------------------------------------------------------------------
\* A socket whose token has expired is shut out in the end.
ExpiredSocketsLeave == \A s \in Sockets : (s \in expired \cap connected) ~> s \notin connected
=============================================================================
