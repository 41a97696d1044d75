------------------------------- MODULE Visits -------------------------------
(***************************************************************************)
(* AnalyticsService as one browser meets it: page views (startSession) and *)
(* interactions with the contact form, which share the cookies of the      *)
(* browser and overlap freely, each giving way at its database calls.  A   *)
(* visit is a row of analytics_sessions; it goes on while its last         *)
(* activity is at most Duration old.  The rows of different browsers have  *)
(* nothing in common but the summary that counts them.                     *)
(*                                                                         *)
(* A call makes at most one session token and one visitor token, both      *)
(* random, so the name of the call serves for both.                        *)
(***************************************************************************)
EXTENDS Integers, FiniteSets, FiniteSetsExt

CONSTANTS Calls,
          Legacy,       \* a session (and its visitor token) from before
          NoSession, NoVisitor,
          Duration,     \* ANALYTICS_SESSION_DURATION_MS, 30 minutes
          TicksPerDay,  \* DAY_MS
          DefaultDays,  \* 30, the days of a summary that names no first day
          MaxDays,      \* MAX_SUMMARY_DAYS, 366
          Zones,        \* time zones the database session may run in
          MaxTime       \* bound of the clock

ASSUME VisitsAssumption ==
    /\ Legacy \notin Calls /\ NoSession \notin Calls \cup {Legacy}
    /\ NoVisitor \notin Calls \cup {Legacy}
    /\ {Duration, TicksPerDay, DefaultDays, MaxDays, MaxTime} \subseteq Nat \ {0}
    /\ Zones \subseteq (1 - TicksPerDay)..(TicksPerDay - 1)

VARIABLES
    now,
    \* The browser.
    jar,        \* its cookies: session, the time it drops it, visitor
    \* The calls.
    kind,       \* "view" or "form"
    stage,      \* the statement the handler is about to run
    presented,  \* mc_session_id as it came with the request
    visitor,    \* the visitor token the handler works with
    at,         \* now, as the handler read it when it began
    target,     \* the session it found or is about to create
    \* analytics_sessions and analytics_events.
    startedAt, lastActivityAt, visitorToken, occurredAt,
    \* History.
    peak,       \* the latest activity a session has had
    met,        \* the calls in flight while this one was
    disturbed,  \* a call failed, or the cookies were cleared
    renewed     \* sessions that an interaction with the form prolonged

callVars == <<kind, stage, presented, visitor, at, target>>
tableVars == <<startedAt, lastActivityAt, visitorToken, occurredAt>>
historyVars == <<peak, met, disturbed, renewed>>
vars == <<now, jar, callVars, tableVars, historyVars>>

Sessions == Calls \cup {Legacy}
NoTime == -1
InFlight == {"sent", "find", "update", "create", "record", "answer"}

EmptyJar == [session |-> NoSession, until |-> NoTime, visitor |-> NoVisitor]

\* The browser comes for the first time, or has a visit under way whose row
\* need not name a visitor (the column is optional).
Init ==
    /\ now = 0
    /\ kind = [c \in Calls |-> "none"]
    /\ stage = [c \in Calls |-> "idle"]
    /\ presented = [c \in Calls |-> NoSession]
    /\ visitor = [c \in Calls |-> NoVisitor]
    /\ at = [c \in Calls |-> NoTime]
    /\ target = [c \in Calls |-> NoSession]
    /\ occurredAt = [s \in Sessions |-> NoTime]
    /\ \E first \in BOOLEAN, v \in {NoVisitor, Legacy} :
          LET begin == [s \in Sessions |-> IF s = Legacy /\ ~ first THEN 0 ELSE NoTime]
          IN  /\ startedAt = begin /\ lastActivityAt = begin /\ peak = begin
              /\ visitorToken = [s \in Sessions |->
                                    IF s = Legacy /\ ~ first THEN v ELSE NoVisitor]
              /\ jar = IF first THEN EmptyJar
                       ELSE [session |-> Legacy, until |-> Duration, visitor |-> v]
    /\ met = [c \in Calls |-> {}]
    /\ disturbed = FALSE
    /\ renewed = {}

-----------------------------------------------------------------------------
(* The browser.                                                            *)

\* It sends the cookies it has; a session cookie past its maxAge is gone.
Send(c, k) ==
    LET others == {d \in Calls : stage[d] \in InFlight}
    IN  /\ stage[c] = "idle"
        /\ stage' = [stage EXCEPT ![c] = "sent"]
        /\ kind' = [kind EXCEPT ![c] = k]
        /\ presented' = [presented EXCEPT ![c] =
                            IF now < jar.until THEN jar.session ELSE NoSession]
        /\ visitor' = [visitor EXCEPT ![c] = jar.visitor]
        /\ met' = [d \in Calls |-> IF d = c THEN others
                                   ELSE IF d \in others THEN met[d] \cup {c} ELSE met[d]]
        /\ UNCHANGED <<now, jar, at, target, tableVars, peak, disturbed, renewed>>

ClearCookies ==
    /\ jar # EmptyJar
    /\ jar' = EmptyJar
    /\ disturbed' = TRUE
    /\ UNCHANGED <<now, callVars, tableVars, peak, met, renewed>>

Tick ==
    /\ now < MaxTime
    /\ now' = now + 1
    /\ UNCHANGED <<jar, callVars, tableVars, historyVars>>

-----------------------------------------------------------------------------
(* The handlers.                                                           *)

Goto(c, from, to) == stage[c] = from /\ stage' = [stage EXCEPT ![c] = to]

\* Both handlers read the clock first.  A page view without a visitor token
\* gets a new one.
Arrive(c) ==
    /\ Goto(c, "sent", IF presented[c] # NoSession THEN "find"
                       ELSE IF kind[c] = "view" THEN "create" ELSE "done")
    /\ at' = [at EXCEPT ![c] = now]
    /\ visitor' = [visitor EXCEPT ![c] =
                      IF kind[c] = "view" /\ @ = NoVisitor THEN c ELSE @]
    /\ UNCHANGED <<now, jar, kind, presented, target, tableVars, historyVars>>

\* Mutant: the age of the session is not asked for.
FindAnyAge(c) ==
    /\ Goto(c, "find", IF kind[c] = "view" THEN "update" ELSE "record")
    /\ startedAt[presented[c]] # NoTime
    /\ target' = [target EXCEPT ![c] = presented[c]]
    /\ visitor' = [visitor EXCEPT ![c] =
          IF kind[c] = "view" /\ visitorToken[presented[c]] # NoVisitor
          THEN visitorToken[presented[c]] ELSE @]
    /\ UNCHANGED <<now, jar, kind, presented, at, tableVars, historyVars>>

Active(s, t) == startedAt[s] # NoTime /\ lastActivityAt[s] >= t - Duration

\* findFirst: the session is there and active.  A page view goes on with the
\* visitor token of the row, and with its own where the row has none.
Find(c) ==
    /\ Goto(c, "find", IF kind[c] = "view" THEN "update" ELSE "record")
    /\ Active(presented[c], at[c])
    /\ target' = [target EXCEPT ![c] = presented[c]]
    /\ visitor' = [visitor EXCEPT ![c] =
          IF kind[c] = "view" /\ visitorToken[presented[c]] # NoVisitor
          THEN visitorToken[presented[c]] ELSE @]
    /\ UNCHANGED <<now, jar, kind, presented, at, tableVars, historyVars>>

\* It is not: a page view opens another one, the form answers 400.
FindNothing(c) ==
    /\ Goto(c, "find", IF kind[c] = "view" THEN "create" ELSE "done")
    /\ ~ Active(presented[c], at[c])
    /\ UNCHANGED <<now, jar, kind, presented, visitor, at, target, tableVars, historyVars>>

\* Mutant: activeSince is written in the place of now.
TouchSince(c, s) ==
    /\ lastActivityAt' = [lastActivityAt EXCEPT ![s] = at[c] - Duration]
    /\ peak' = [peak EXCEPT ![s] = IF at[c] > @ THEN at[c] ELSE @]

\* The activity of session s becomes the time the call came in.
Touch(c, s) ==
    /\ lastActivityAt' = [lastActivityAt EXCEPT ![s] = at[c]]
    /\ peak' = [peak EXCEPT ![s] = IF at[c] > @ THEN at[c] ELSE @]

\* Mutant: the row is not given the visitor token.
UpdateKeepsVisitor(c) ==
    /\ Goto(c, "update", "answer")
    /\ Touch(c, target[c])
    /\ UNCHANGED <<now, jar, kind, presented, visitor, at, target,
                   startedAt, visitorToken, occurredAt, met, disturbed, renewed>>

Update(c) ==
    LET s == target[c]
    IN  /\ Goto(c, "update", "answer")
        /\ Touch(c, s)
        /\ visitorToken' = [visitorToken EXCEPT ![s] = visitor[c]]
        /\ UNCHANGED <<now, jar, kind, presented, visitor, at, target,
                       startedAt, occurredAt, met, disturbed, renewed>>

Create(c) ==
    /\ Goto(c, "create", "answer")
    /\ target' = [target EXCEPT ![c] = c]
    /\ startedAt' = [startedAt EXCEPT ![c] = at[c]]
    /\ visitorToken' = [visitorToken EXCEPT ![c] = visitor[c]]
    /\ Touch(c, c)
    /\ UNCHANGED <<now, jar, kind, presented, visitor, at,
                   occurredAt, met, disturbed, renewed>>

\* One transaction: the event, once for each session, and the activity.
Record(c) ==
    LET s == target[c]
    IN  /\ Goto(c, "record", "answer")
        /\ occurredAt' = [occurredAt EXCEPT ![s] = IF @ = NoTime THEN at[c] ELSE @]
        /\ Touch(c, s)
        /\ renewed' = renewed \cup {s}
        /\ UNCHANGED <<now, jar, kind, presented, visitor, at, target,
                       startedAt, visitorToken, met, disturbed>>

\* Mutant: only a new session is given its cookies.
AnswerNewOnly(c) ==
    /\ Goto(c, "answer", "done")
    /\ jar' = IF kind[c] = "form" \/ target[c] # c THEN jar
              ELSE [session |-> target[c], until |-> now + Duration, visitor |-> visitor[c]]
    /\ UNCHANGED <<now, kind, presented, visitor, at, target, tableVars, historyVars>>

\* Only the answer to a page view sets cookies.
Answer(c) ==
    /\ Goto(c, "answer", "done")
    /\ jar' = IF kind[c] = "form" THEN jar
              ELSE [session |-> target[c], until |-> now + Duration, visitor |-> visitor[c]]
    /\ UNCHANGED <<now, kind, presented, visitor, at, target, tableVars, historyVars>>

\* The request or its answer is lost, a statement fails (the upsert too, when
\* another one of the same session comes first), or the process dies.
Fails(c) ==
    /\ stage[c] \in InFlight
    /\ stage' = [stage EXCEPT ![c] = "done"]
    /\ disturbed' = TRUE
    /\ UNCHANGED <<now, jar, kind, presented, visitor, at, target, tableVars,
                   peak, met, renewed>>

Next ==
    \/ \E c \in Calls :
          \/ \E k \in {"view", "form"} : Send(c, k)
          \/ Arrive(c) \/ Find(c) \/ FindNothing(c)
          \/ Update(c) \/ Create(c) \/ Record(c) \/ Answer(c) \/ Fails(c)
    \/ ClearCookies \/ Tick

Spec == Init /\ [][Next]_vars

-----------------------------------------------------------------------------
(* The summary: one statement, so a function of the rows as they are.      *)

Day(t) == t \div TicksPerDay

\* resolvePeriod: what is not asked for is filled in ({} stands for absent).
Period(from, to) ==
    LET last == IF to = {} THEN Day(now) ELSE CHOOSE d \in to : TRUE
        first == IF from = {} THEN last - (DefaultDays - 1) ELSE CHOOSE d \in from : TRUE
    IN  [first |-> first, last |-> last]

Accepted(p) == p.last - p.first + 1 \in 1..MaxDays

\* Mutant: the period ends where its last day begins.
WithinExclusive(t, p) == t >= p.first * TicksPerDay /\ t < p.last * TicksPerDay

\* fromDate and toExclusive.
Within(t, p) == t >= p.first * TicksPerDay /\ t < (p.last + 1) * TicksPerDay

\* generate_series gives the midnights UTC of the period; days.day::date is
\* the date that the database session writes for one.
Label(d, zone) == (d * TicksPerDay + zone) \div TicksPerDay

\* A row of the series for the instants of one of the two tables.
CountOn(d, when, p, zone) ==
    Cardinality({s \in Sessions : when[s] # NoTime /\ Within(when[s], p) /\ Day(when[s]) = Label(d, zone)})

Total(when, p, zone) == MapThenSumSet(LAMBDA d : CountOn(d, when, p, zone), p.first..p.last)

-----------------------------------------------------------------------------
(* Properties.                                                             *)

TypeOK ==
    /\ now \in 0..MaxTime
    /\ jar \in [session : Sessions \cup {NoSession}, until : Int,
                visitor : Sessions \cup {NoVisitor}]
    /\ kind \in [Calls -> {"none", "view", "form"}]
    /\ stage \in [Calls -> InFlight \cup {"idle", "done"}]
    /\ presented \in [Calls -> Sessions \cup {NoSession}]
    /\ visitor \in [Calls -> Sessions \cup {NoVisitor}]
    /\ at \in [Calls -> NoTime..MaxTime]
    /\ target \in [Calls -> Sessions \cup {NoSession}]
    /\ startedAt \in [Sessions -> NoTime..MaxTime]
    /\ lastActivityAt \in [Sessions -> NoTime..MaxTime]
    /\ visitorToken \in [Sessions -> Sessions \cup {NoVisitor}]
    /\ occurredAt \in [Sessions -> NoTime..MaxTime]
    /\ peak \in [Sessions -> NoTime..MaxTime]
    /\ met \in [Calls -> SUBSET Calls]
    /\ disturbed \in BOOLEAN
    /\ renewed \subseteq Sessions

\* A visit does not wake up: whatever overlaps, an activity that prolongs a
\* session comes at most the 30 minutes after an earlier one
\* (ANALYTICS_SESSION_DURATION_MS in the two look-ups).
NoVisitWakesUp ==
    [][\A s \in Sessions :
          (startedAt[s] # NoTime /\ peak'[s] > peak[s]) => peak'[s] - peak[s] <= Duration]_vars

\* lastActivityAt is the time a request came in, so it may be set back; but
\* only by a request that overlapped with the later one.
ActivityGoesBackOnlyInRaces ==
    [][\A s \in Sessions : lastActivityAt'[s] < lastActivityAt[s] =>
          \E c \in Calls : \E d \in met[c] :
             /\ stage[c] \in {"update", "record"} /\ stage'[c] = "answer" /\ target[c] = s
             /\ target[d] = s /\ at[d] > at[c]]_vars

\* Two overlapping page views of session s worked with visitors v and w.
Rivals(s, v, w) ==
    \E c \in Calls : \E d \in met[c] :
        /\ kind[c] = "view" /\ target[c] = s /\ visitor[c] = v
        /\ kind[d] = "view" /\ target[d] = s /\ visitor[d] = w

\* Sessions and visitors belong together: the two cookies name a session and
\* the visitor in its row, and so does every answer to a page view - except
\* that of two page views that overlapped, one may be in the cookie or the
\* answer and the other in the row, for good (startSession fills in a row
\* without a visitor after it has looked).
VisitorsAgree ==
    /\ \A c \in Calls :
          (kind[c] = "view" /\ stage[c] = "answer") =>
              \/ visitor[c] = visitorToken[target[c]]
              \/ Rivals(target[c], visitor[c], visitorToken[target[c]])
    /\ (jar.session # NoSession /\ jar.visitor # NoVisitor) =>
          \/ jar.visitor = visitorToken[jar.session]
          \/ Rivals(jar.session, jar.visitor, visitorToken[jar.session])

\* A visitor who takes one step at a time is counted once: a page view that
\* opens a session finds the earlier ones over, unless the visitor used the
\* contact form.  That prolongs the session and not the cookie, so the
\* session goes on without the browser that it belongs to.
Orderly == ~ disturbed /\ \A c \in Calls : met[c] = {}
VisitsSplitOnlyByForm ==
    [][\A s, t \in Sessions :
          (/\ Orderly
           /\ startedAt[s] # NoTime
           /\ startedAt[t] = NoTime /\ startedAt'[t] # NoTime)
          => startedAt'[t] >= lastActivityAt[s] + Duration \/ s \in renewed]_vars

\* The days of a summary add up to the visits and interactions of its period,
\* first and last day included (the words of analytics-summary-query.dto.ts),
\* unless the database session runs in a zone behind UTC: the labels of the
\* days are then those of the days before, and the last day is left out.
SummaryAddsUp ==
    \A from, to \in {{}} \cup {{d} : d \in 0..Day(MaxTime)} :
        LET p == Period(from, to)
        IN  Accepted(p) => \A when \in {startedAt, occurredAt}, zone \in Zones :
                zone >= 0 => Total(when, p, zone) =
                    Cardinality({s \in Sessions :
                        when[s] # NoTime /\ Day(when[s]) \in p.first..p.last})

-----------------------------------------------------------------------------
(* What carries those about visitors and activities.                       *)

Answers == {"find", "update", "create", "record", "answer"}

\* The time a handler read is that of its arrival.
Timed(c) == /\ at[c] <= now
            /\ stage[c] \in Answers => at[c] >= 0

\* What a handler has found by the stage it is in.
StageFits(c) ==
    /\ stage[c] \in InFlight => kind[c] # "none"
    /\ stage[c] = "find" => presented[c] # NoSession
    /\ stage[c] \in {"update", "create"} => kind[c] = "view"
    /\ stage[c] = "record" => kind[c] = "form"
    /\ stage[c] \in {"idle", "sent", "find", "create"} => target[c] = NoSession
    /\ stage[c] \in {"update", "record", "answer"} =>
          target[c] # NoSession /\ startedAt[target[c]] # NoTime
    /\ (kind[c] = "view" /\ (stage[c] \in Answers \/ target[c] # NoSession))
          => visitor[c] # NoVisitor

\* The session that bears the name of a call is the one it creates.
OwnSession(c) == stage[c] \in {"idle", "sent", "find", "create"} => startedAt[c] = NoTime

\* What is about to be prolonged has not been over since before the request.
FoundActive(c) == stage[c] \in {"update", "record"} => at[c] - peak[target[c]] <= Duration

\* Activities are those of requests that came in.
ActivityKnown(s) ==
    /\ startedAt[s] = NoTime => lastActivityAt[s] = NoTime /\ peak[s] = NoTime
    /\ lastActivityAt[s] <= peak[s] /\ lastActivityAt[s] <= now

CookieNamesRow == jar.session # NoSession => startedAt[jar.session] # NoTime

\* A page view about to write its visitor into a row that has one already
\* writes that of the cookie, or overlapped with the page view that set it.
CookieOrRival(c) ==
    (/\ stage[c] = "update" /\ jar.session = target[c] /\ jar.visitor # NoVisitor
     /\ visitorToken[target[c]] # NoVisitor)
        => jar.visitor = visitor[c] \/ Rivals(target[c], jar.visitor, visitor[c])

\* Requests that are in flight at once know of each other.
MeetMutually ==
    /\ \A c, d \in Calls :
          (c # d /\ {stage[c], stage[d]} \subseteq InFlight) => d \in met[c]
    /\ \A c \in Calls : stage[c] = "idle" => met[c] = {}

\* Activity later than a handler's clock is that of one it overlaps with.
LaterWasMet(c) ==
    stage[c] \in Answers \ {"answer"} =>
        \A s \in Sessions : lastActivityAt[s] > at[c] =>
            \E d \in met[c] : /\ stage[d] \in {"answer", "done"}
                              /\ target[d] = s /\ at[d] > at[c]

\* A visitor who takes one step at a time: each visit is that of the cookie,
\* about to be that of the cookie, or over; and is the one that the request
\* under way names or goes on with, or was over when the request came in.
Over(s, t) == t >= lastActivityAt[s] + Duration

Accounted(s) ==
    \/ jar.session = s /\ jar.until >= lastActivityAt[s] + Duration
    \/ Over(s, now)
    \/ \E c \in Calls : kind[c] = "view" /\ stage[c] = "answer" /\ target[c] = s

Attended(c, s) ==
    /\ stage[c] = "sent" => presented[c] = s \/ Over(s, now)
    /\ stage[c] = "find" => presented[c] = s \/ Over(s, at[c])
    /\ stage[c] = "create" => Over(s, at[c])
    /\ stage[c] \in {"update", "record", "answer"} => target[c] = s \/ Over(s, at[c])

OneVisitAtATime ==
    Orderly => \A s \in Sessions : (startedAt[s] # NoTime /\ s \notin renewed) =>
                   Accounted(s) /\ \A c \in Calls : Attended(c, s)

VisitsInvariant ==
    /\ TypeOK
    /\ \A c \in Calls : /\ Timed(c) /\ StageFits(c) /\ OwnSession(c)
                         /\ FoundActive(c) /\ LaterWasMet(c) /\ CookieOrRival(c)
    /\ \A s \in Sessions : ActivityKnown(s)
    /\ CookieNamesRow /\ MeetMutually /\ VisitorsAgree /\ OneVisitAtATime
=============================================================================
