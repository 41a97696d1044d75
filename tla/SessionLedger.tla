---------------------------- MODULE SessionLedger ----------------------------
(***************************************************************************)
(* What refresh-token rotation promises, with no await, request or         *)
(* database row in sight: a session is in at most one token; its token is  *)
(* taken once, for good, before another one is given for it; and a session *)
(* whose token a logout took is over.  AuthSessions implements this, a     *)
(* session being named by the token of its login.                          *)
(***************************************************************************)
CONSTANT Tokens

VARIABLES live,    \* the tokens a session can go on with
          spent,   \* the tokens that were taken
          closed   \* the sessions that a logout ended

ledgerVars == <<live, spent, closed>>

Init == /\ live = [s \in Tokens |-> {}]
        /\ spent = {}
        /\ closed = {}

Fresh(t) == t \notin spent /\ \A s \in Tokens : t \notin live[s]

\* A login.
Open(s) ==
    /\ Fresh(s)
    /\ live[s] = {}
    /\ live' = [live EXCEPT ![s] = {s}]
    /\ UNCHANGED <<spent, closed>>

Take(s, t) ==
    /\ live[s] = {t}
    /\ live' = [live EXCEPT ![s] = {}]
    /\ spent' = spent \cup {t}

\* The two halves of a refresh; the second may never come.
TakeToExchange(s, t) == Take(s, t) /\ UNCHANGED closed

Give(s, t) ==
    /\ live[s] = {} /\ s \in spent /\ s \notin closed
    /\ Fresh(t)
    /\ live' = [live EXCEPT ![s] = {t}]
    /\ UNCHANGED <<spent, closed>>

\* A logout.
Close(s, t) == Take(s, t) /\ closed' = closed \cup {s}

Next == \E s \in Tokens :
            \/ Open(s)
            \/ \E t \in Tokens : TakeToExchange(s, t) \/ Give(s, t) \/ Close(s, t)

Spec == Init /\ [][Next]_ledgerVars
=============================================================================
