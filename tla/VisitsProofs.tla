---------------------------- MODULE VisitsProofs ----------------------------
(***************************************************************************)
(* What TLAPS proves of Visits, for every set of calls, every duration of  *)
(* a visit and of a day, every offset of a time zone and every bound of    *)
(* the clock.                                                              *)
(***************************************************************************)
EXTENDS Visits, FiniteSetTheorems, WellFoundedInduction, TLAPS

USE VisitsAssumption DEF NoTime

-----------------------------------------------------------------------------
(* Every step keeps each part of the invariant.                            *)

\* Every variable keeps its type.
LEMMA TypeKept ==
    ASSUME VisitsInvariant, [Next]_vars
    PROVE  TypeOK'
<1>1. ASSUME NEW c \in Calls, NEW k \in {"view", "form"}, Send(c, k)
      PROVE  TypeOK'
  BY <1>1
  DEF VisitsInvariant, TypeOK, Sessions, InFlight, EmptyJar, StageFits, Answers, Send,
      callVars, tableVars, historyVars
<1>2. ASSUME NEW c \in Calls, Arrive(c)
      PROVE  TypeOK'
  BY <1>2
  DEF VisitsInvariant, TypeOK, Sessions, InFlight, EmptyJar, StageFits, Answers,
      Arrive, Goto, callVars, tableVars, historyVars
<1>3. ASSUME NEW c \in Calls, Find(c)
      PROVE  TypeOK'
  BY <1>3
  DEF VisitsInvariant, TypeOK, Sessions, InFlight, EmptyJar, StageFits, Answers, Find,
      Goto, Active, callVars, tableVars, historyVars
<1>4. ASSUME NEW c \in Calls, FindNothing(c)
      PROVE  TypeOK'
  BY <1>4
  DEF VisitsInvariant, TypeOK, Sessions, InFlight, EmptyJar, StageFits, Answers,
      FindNothing, Goto, Active, callVars, tableVars, historyVars
<1>5. ASSUME NEW c \in Calls, Update(c)
      PROVE  TypeOK'
  BY <1>5
  DEF VisitsInvariant, TypeOK, Sessions, InFlight, EmptyJar, StageFits, Answers,
      Update, Goto, Touch, callVars, tableVars, historyVars
<1>6. ASSUME NEW c \in Calls, Create(c)
      PROVE  TypeOK'
  BY <1>6
  DEF VisitsInvariant, TypeOK, Sessions, InFlight, EmptyJar, StageFits, Answers,
      Create, Goto, Touch, callVars, tableVars, historyVars
<1>7. ASSUME NEW c \in Calls, Record(c)
      PROVE  TypeOK'
  BY <1>7
  DEF VisitsInvariant, TypeOK, Sessions, InFlight, EmptyJar, StageFits, Answers,
      Record, Goto, Touch, callVars, tableVars, historyVars
<1>8. ASSUME NEW c \in Calls, Answer(c)
      PROVE  TypeOK'
  BY <1>8
  DEF VisitsInvariant, TypeOK, Sessions, InFlight, EmptyJar, StageFits, Answers,
      Answer, Goto, callVars, tableVars, historyVars
<1>9. ASSUME NEW c \in Calls, Fails(c)
      PROVE  TypeOK'
  BY <1>9
  DEF VisitsInvariant, TypeOK, Sessions, InFlight, EmptyJar, StageFits, Answers, Fails,
      callVars, tableVars, historyVars
<1>10. CASE ClearCookies
  BY <1>10
  DEF VisitsInvariant, TypeOK, Sessions, InFlight, EmptyJar, StageFits, Answers,
      ClearCookies, callVars, tableVars, historyVars
<1>11. CASE Tick
  BY <1>11
  DEF VisitsInvariant, TypeOK, Sessions, InFlight, EmptyJar, StageFits, Answers, Tick,
      callVars, tableVars, historyVars
<1>12. CASE UNCHANGED vars
  BY <1>12
  DEF VisitsInvariant, TypeOK, Sessions, InFlight, EmptyJar, StageFits, Answers, vars,
      callVars, tableVars, historyVars
<1> QED
  BY <1>1, <1>2, <1>3, <1>4, <1>5, <1>6, <1>7, <1>8, <1>9, <1>10, <1>11, <1>12 DEF Next

\* No handler's clock runs ahead.
LEMMA TimedKept ==
    ASSUME VisitsInvariant, [Next]_vars
    PROVE  (\A d \in Calls : Timed(d))'
<1>1. ASSUME NEW c \in Calls, NEW k \in {"view", "form"}, Send(c, k)
      PROVE  (\A d \in Calls : Timed(d))'
  BY <1>1
  DEF VisitsInvariant, TypeOK, Timed, Answers, Sessions, InFlight, Send, callVars,
      tableVars, historyVars
<1>2. ASSUME NEW c \in Calls, Arrive(c)
      PROVE  (\A d \in Calls : Timed(d))'
  BY <1>2
  DEF VisitsInvariant, TypeOK, Timed, Answers, Sessions, InFlight, Arrive, Goto,
      callVars, tableVars, historyVars
<1>3. ASSUME NEW c \in Calls, Find(c)
      PROVE  (\A d \in Calls : Timed(d))'
  BY <1>3
  DEF VisitsInvariant, TypeOK, Timed, Answers, Sessions, InFlight, Find, Goto, Active,
      callVars, tableVars, historyVars
<1>4. ASSUME NEW c \in Calls, FindNothing(c)
      PROVE  (\A d \in Calls : Timed(d))'
  BY <1>4
  DEF VisitsInvariant, TypeOK, Timed, Answers, Sessions, InFlight, FindNothing, Goto,
      Active, callVars, tableVars, historyVars
<1>5. ASSUME NEW c \in Calls, Update(c)
      PROVE  (\A d \in Calls : Timed(d))'
  BY <1>5
  DEF VisitsInvariant, TypeOK, Timed, Answers, Sessions, InFlight, Update, Goto, Touch,
      callVars, tableVars, historyVars
<1>6. ASSUME NEW c \in Calls, Create(c)
      PROVE  (\A d \in Calls : Timed(d))'
  BY <1>6
  DEF VisitsInvariant, TypeOK, Timed, Answers, Sessions, InFlight, Create, Goto, Touch,
      callVars, tableVars, historyVars
<1>7. ASSUME NEW c \in Calls, Record(c)
      PROVE  (\A d \in Calls : Timed(d))'
  BY <1>7
  DEF VisitsInvariant, TypeOK, Timed, Answers, Sessions, InFlight, Record, Goto, Touch,
      callVars, tableVars, historyVars
<1>8. ASSUME NEW c \in Calls, Answer(c)
      PROVE  (\A d \in Calls : Timed(d))'
  BY <1>8
  DEF VisitsInvariant, TypeOK, Timed, Answers, Sessions, InFlight, Answer, Goto,
      callVars, tableVars, historyVars
<1>9. ASSUME NEW c \in Calls, Fails(c)
      PROVE  (\A d \in Calls : Timed(d))'
  BY <1>9
  DEF VisitsInvariant, TypeOK, Timed, Answers, Sessions, InFlight, Fails, callVars,
      tableVars, historyVars
<1>10. CASE ClearCookies
  BY <1>10
  DEF VisitsInvariant, TypeOK, Timed, Answers, Sessions, InFlight, ClearCookies,
      callVars, tableVars, historyVars
<1>11. CASE Tick
  BY <1>11
  DEF VisitsInvariant, TypeOK, Timed, Answers, Sessions, InFlight, Tick, callVars,
      tableVars, historyVars
<1>12. CASE UNCHANGED vars
  BY <1>12
  DEF VisitsInvariant, TypeOK, Timed, Answers, Sessions, InFlight, vars, callVars,
      tableVars, historyVars
<1> QED
  BY <1>1, <1>2, <1>3, <1>4, <1>5, <1>6, <1>7, <1>8, <1>9, <1>10, <1>11, <1>12 DEF Next

\* What a handler has found stays there.
LEMMA FitsKept ==
    ASSUME VisitsInvariant, [Next]_vars
    PROVE  (\A d \in Calls : StageFits(d))'
<1>1. ASSUME NEW c \in Calls, NEW k \in {"view", "form"}, Send(c, k)
      PROVE  (\A d \in Calls : StageFits(d))'
  BY <1>1
  DEF VisitsInvariant, TypeOK, StageFits, OwnSession, Timed, Active, Answers, Sessions,
      InFlight, Send, callVars, tableVars, historyVars
<1>2. ASSUME NEW c \in Calls, Arrive(c)
      PROVE  (\A d \in Calls : StageFits(d))'
  BY <1>2
  DEF VisitsInvariant, TypeOK, StageFits, OwnSession, Timed, Active, Answers, Sessions,
      InFlight, Arrive, Goto, callVars, tableVars, historyVars
<1>3. ASSUME NEW c \in Calls, Find(c)
      PROVE  (\A d \in Calls : StageFits(d))'
  <2> SUFFICES ASSUME NEW d \in Calls
               PROVE  StageFits(d)'
    OBVIOUS
  <2>1. CASE d = c
    BY <1>3, <2>1
    DEF VisitsInvariant, TypeOK, StageFits, OwnSession, Timed, Active, Answers,
        Sessions, InFlight, Find, Goto, Active, callVars, tableVars, historyVars
  <2>2. CASE d # c
    BY <1>3, <2>2
    DEF VisitsInvariant, TypeOK, StageFits, OwnSession, Timed, Active, Answers,
        Sessions, InFlight, Find, Goto, Active, callVars, tableVars, historyVars
  <2> QED
    BY <2>1, <2>2
<1>4. ASSUME NEW c \in Calls, FindNothing(c)
      PROVE  (\A d \in Calls : StageFits(d))'
  BY <1>4
  DEF VisitsInvariant, TypeOK, StageFits, OwnSession, Timed, Active, Answers, Sessions,
      InFlight, FindNothing, Goto, Active, callVars, tableVars, historyVars
<1>5. ASSUME NEW c \in Calls, Update(c)
      PROVE  (\A d \in Calls : StageFits(d))'
  BY <1>5
  DEF VisitsInvariant, TypeOK, StageFits, OwnSession, Timed, Active, Answers, Sessions,
      InFlight, Update, Goto, Touch, callVars, tableVars, historyVars
<1>6. ASSUME NEW c \in Calls, Create(c)
      PROVE  (\A d \in Calls : StageFits(d))'
  <2> SUFFICES ASSUME NEW d \in Calls
               PROVE  StageFits(d)'
    OBVIOUS
  <2>1. CASE d = c
    BY <1>6, <2>1
    DEF VisitsInvariant, TypeOK, StageFits, OwnSession, Timed, Active, Answers,
        Sessions, InFlight, Create, Goto, Touch, callVars, tableVars, historyVars
  <2>2. CASE d # c
    BY <1>6, <2>2
    DEF VisitsInvariant, TypeOK, StageFits, OwnSession, Timed, Active, Answers,
        Sessions, InFlight, Create, Goto, Touch, callVars, tableVars, historyVars
  <2> QED
    BY <2>1, <2>2
<1>7. ASSUME NEW c \in Calls, Record(c)
      PROVE  (\A d \in Calls : StageFits(d))'
  BY <1>7
  DEF VisitsInvariant, TypeOK, StageFits, OwnSession, Timed, Active, Answers, Sessions,
      InFlight, Record, Goto, Touch, callVars, tableVars, historyVars
<1>8. ASSUME NEW c \in Calls, Answer(c)
      PROVE  (\A d \in Calls : StageFits(d))'
  BY <1>8
  DEF VisitsInvariant, TypeOK, StageFits, OwnSession, Timed, Active, Answers, Sessions,
      InFlight, Answer, Goto, callVars, tableVars, historyVars
<1>9. ASSUME NEW c \in Calls, Fails(c)
      PROVE  (\A d \in Calls : StageFits(d))'
  BY <1>9
  DEF VisitsInvariant, TypeOK, StageFits, OwnSession, Timed, Active, Answers, Sessions,
      InFlight, Fails, callVars, tableVars, historyVars
<1>10. CASE ClearCookies
  BY <1>10
  DEF VisitsInvariant, TypeOK, StageFits, OwnSession, Timed, Active, Answers, Sessions,
      InFlight, ClearCookies, callVars, tableVars, historyVars
<1>11. CASE Tick
  BY <1>11
  DEF VisitsInvariant, TypeOK, StageFits, OwnSession, Timed, Active, Answers, Sessions,
      InFlight, Tick, callVars, tableVars, historyVars
<1>12. CASE UNCHANGED vars
  BY <1>12
  DEF VisitsInvariant, TypeOK, StageFits, OwnSession, Timed, Active, Answers, Sessions,
      InFlight, vars, callVars, tableVars, historyVars
<1> QED
  BY <1>1, <1>2, <1>3, <1>4, <1>5, <1>6, <1>7, <1>8, <1>9, <1>10, <1>11, <1>12 DEF Next

\* Nobody else creates the session that bears the name of a call.
LEMMA OwnKept ==
    ASSUME VisitsInvariant, [Next]_vars
    PROVE  (\A d \in Calls : OwnSession(d))'
<1>1. ASSUME NEW c \in Calls, NEW k \in {"view", "form"}, Send(c, k)
      PROVE  (\A d \in Calls : OwnSession(d))'
  BY <1>1
  DEF VisitsInvariant, TypeOK, OwnSession, StageFits, Sessions, InFlight, Send,
      callVars, tableVars, historyVars
<1>2. ASSUME NEW c \in Calls, Arrive(c)
      PROVE  (\A d \in Calls : OwnSession(d))'
  BY <1>2
  DEF VisitsInvariant, TypeOK, OwnSession, StageFits, Sessions, InFlight, Arrive, Goto,
      callVars, tableVars, historyVars
<1>3. ASSUME NEW c \in Calls, Find(c)
      PROVE  (\A d \in Calls : OwnSession(d))'
  BY <1>3
  DEF VisitsInvariant, TypeOK, OwnSession, StageFits, Sessions, InFlight, Find, Goto,
      Active, callVars, tableVars, historyVars
<1>4. ASSUME NEW c \in Calls, FindNothing(c)
      PROVE  (\A d \in Calls : OwnSession(d))'
  BY <1>4
  DEF VisitsInvariant, TypeOK, OwnSession, StageFits, Sessions, InFlight, FindNothing,
      Goto, Active, callVars, tableVars, historyVars
<1>5. ASSUME NEW c \in Calls, Update(c)
      PROVE  (\A d \in Calls : OwnSession(d))'
  BY <1>5
  DEF VisitsInvariant, TypeOK, OwnSession, StageFits, Sessions, InFlight, Update, Goto,
      Touch, callVars, tableVars, historyVars
<1>6. ASSUME NEW c \in Calls, Create(c)
      PROVE  (\A d \in Calls : OwnSession(d))'
  BY <1>6
  DEF VisitsInvariant, TypeOK, OwnSession, StageFits, Sessions, InFlight, Create, Goto,
      Touch, callVars, tableVars, historyVars
<1>7. ASSUME NEW c \in Calls, Record(c)
      PROVE  (\A d \in Calls : OwnSession(d))'
  BY <1>7
  DEF VisitsInvariant, TypeOK, OwnSession, StageFits, Sessions, InFlight, Record, Goto,
      Touch, callVars, tableVars, historyVars
<1>8. ASSUME NEW c \in Calls, Answer(c)
      PROVE  (\A d \in Calls : OwnSession(d))'
  BY <1>8
  DEF VisitsInvariant, TypeOK, OwnSession, StageFits, Sessions, InFlight, Answer, Goto,
      callVars, tableVars, historyVars
<1>9. ASSUME NEW c \in Calls, Fails(c)
      PROVE  (\A d \in Calls : OwnSession(d))'
  BY <1>9
  DEF VisitsInvariant, TypeOK, OwnSession, StageFits, Sessions, InFlight, Fails,
      callVars, tableVars, historyVars
<1>10. CASE ClearCookies
  BY <1>10
  DEF VisitsInvariant, TypeOK, OwnSession, StageFits, Sessions, InFlight, ClearCookies,
      callVars, tableVars, historyVars
<1>11. CASE Tick
  BY <1>11
  DEF VisitsInvariant, TypeOK, OwnSession, StageFits, Sessions, InFlight, Tick,
      callVars, tableVars, historyVars
<1>12. CASE UNCHANGED vars
  BY <1>12
  DEF VisitsInvariant, TypeOK, OwnSession, StageFits, Sessions, InFlight, vars,
      callVars, tableVars, historyVars
<1> QED
  BY <1>1, <1>2, <1>3, <1>4, <1>5, <1>6, <1>7, <1>8, <1>9, <1>10, <1>11, <1>12 DEF Next

\* A session that was found active stays so.
LEMMA FoundKept ==
    ASSUME VisitsInvariant, [Next]_vars
    PROVE  (\A d \in Calls : FoundActive(d))'
<1>1. ASSUME NEW c \in Calls, NEW k \in {"view", "form"}, Send(c, k)
      PROVE  (\A d \in Calls : FoundActive(d))'
  BY <1>1
  DEF VisitsInvariant, TypeOK, FoundActive, StageFits, OwnSession, ActivityKnown,
      Timed, Answers, Sessions, InFlight, Send, callVars, tableVars, historyVars
<1>2. ASSUME NEW c \in Calls, Arrive(c)
      PROVE  (\A d \in Calls : FoundActive(d))'
  BY <1>2
  DEF VisitsInvariant, TypeOK, FoundActive, StageFits, OwnSession, ActivityKnown,
      Timed, Answers, Sessions, InFlight, Arrive, Goto, callVars, tableVars, historyVars
<1>3. ASSUME NEW c \in Calls, Find(c)
      PROVE  (\A d \in Calls : FoundActive(d))'
  BY <1>3
  DEF VisitsInvariant, TypeOK, FoundActive, StageFits, OwnSession, ActivityKnown,
      Timed, Answers, Sessions, InFlight, Find, Goto, Active, callVars, tableVars,
      historyVars
<1>4. ASSUME NEW c \in Calls, FindNothing(c)
      PROVE  (\A d \in Calls : FoundActive(d))'
  BY <1>4
  DEF VisitsInvariant, TypeOK, FoundActive, StageFits, OwnSession, ActivityKnown,
      Timed, Answers, Sessions, InFlight, FindNothing, Goto, Active, callVars,
      tableVars, historyVars
<1>5. ASSUME NEW c \in Calls, Update(c)
      PROVE  (\A d \in Calls : FoundActive(d))'
  BY <1>5
  DEF VisitsInvariant, TypeOK, FoundActive, StageFits, OwnSession, ActivityKnown,
      Timed, Answers, Sessions, InFlight, Update, Goto, Touch, callVars, tableVars,
      historyVars
<1>6. ASSUME NEW c \in Calls, Create(c)
      PROVE  (\A d \in Calls : FoundActive(d))'
  BY <1>6
  DEF VisitsInvariant, TypeOK, FoundActive, StageFits, OwnSession, ActivityKnown,
      Timed, Answers, Sessions, InFlight, Create, Goto, Touch, callVars, tableVars,
      historyVars
<1>7. ASSUME NEW c \in Calls, Record(c)
      PROVE  (\A d \in Calls : FoundActive(d))'
  BY <1>7
  DEF VisitsInvariant, TypeOK, FoundActive, StageFits, OwnSession, ActivityKnown,
      Timed, Answers, Sessions, InFlight, Record, Goto, Touch, callVars, tableVars,
      historyVars
<1>8. ASSUME NEW c \in Calls, Answer(c)
      PROVE  (\A d \in Calls : FoundActive(d))'
  BY <1>8
  DEF VisitsInvariant, TypeOK, FoundActive, StageFits, OwnSession, ActivityKnown,
      Timed, Answers, Sessions, InFlight, Answer, Goto, callVars, tableVars, historyVars
<1>9. ASSUME NEW c \in Calls, Fails(c)
      PROVE  (\A d \in Calls : FoundActive(d))'
  BY <1>9
  DEF VisitsInvariant, TypeOK, FoundActive, StageFits, OwnSession, ActivityKnown,
      Timed, Answers, Sessions, InFlight, Fails, callVars, tableVars, historyVars
<1>10. CASE ClearCookies
  BY <1>10
  DEF VisitsInvariant, TypeOK, FoundActive, StageFits, OwnSession, ActivityKnown,
      Timed, Answers, Sessions, InFlight, ClearCookies, callVars, tableVars, historyVars
<1>11. CASE Tick
  BY <1>11
  DEF VisitsInvariant, TypeOK, FoundActive, StageFits, OwnSession, ActivityKnown,
      Timed, Answers, Sessions, InFlight, Tick, callVars, tableVars, historyVars
<1>12. CASE UNCHANGED vars
  BY <1>12
  DEF VisitsInvariant, TypeOK, FoundActive, StageFits, OwnSession, ActivityKnown,
      Timed, Answers, Sessions, InFlight, vars, callVars, tableVars, historyVars
<1> QED
  BY <1>1, <1>2, <1>3, <1>4, <1>5, <1>6, <1>7, <1>8, <1>9, <1>10, <1>11, <1>12 DEF Next

\* Activities are those of requests that came in.
LEMMA ActivityKept ==
    ASSUME VisitsInvariant, [Next]_vars
    PROVE  (\A s \in Sessions : ActivityKnown(s))'
<1>1. ASSUME NEW c \in Calls, NEW k \in {"view", "form"}, Send(c, k)
      PROVE  (\A s \in Sessions : ActivityKnown(s))'
  BY <1>1
  DEF VisitsInvariant, TypeOK, ActivityKnown, StageFits, Timed, Answers, Sessions,
      InFlight, Send, callVars, tableVars, historyVars
<1>2. ASSUME NEW c \in Calls, Arrive(c)
      PROVE  (\A s \in Sessions : ActivityKnown(s))'
  BY <1>2
  DEF VisitsInvariant, TypeOK, ActivityKnown, StageFits, Timed, Answers, Sessions,
      InFlight, Arrive, Goto, callVars, tableVars, historyVars
<1>3. ASSUME NEW c \in Calls, Find(c)
      PROVE  (\A s \in Sessions : ActivityKnown(s))'
  BY <1>3
  DEF VisitsInvariant, TypeOK, ActivityKnown, StageFits, Timed, Answers, Sessions,
      InFlight, Find, Goto, Active, callVars, tableVars, historyVars
<1>4. ASSUME NEW c \in Calls, FindNothing(c)
      PROVE  (\A s \in Sessions : ActivityKnown(s))'
  BY <1>4
  DEF VisitsInvariant, TypeOK, ActivityKnown, StageFits, Timed, Answers, Sessions,
      InFlight, FindNothing, Goto, Active, callVars, tableVars, historyVars
<1>5. ASSUME NEW c \in Calls, Update(c)
      PROVE  (\A s \in Sessions : ActivityKnown(s))'
  BY <1>5
  DEF VisitsInvariant, TypeOK, ActivityKnown, StageFits, Timed, Answers, Sessions,
      InFlight, Update, Goto, Touch, callVars, tableVars, historyVars
<1>6. ASSUME NEW c \in Calls, Create(c)
      PROVE  (\A s \in Sessions : ActivityKnown(s))'
  BY <1>6
  DEF VisitsInvariant, TypeOK, ActivityKnown, StageFits, Timed, Answers, Sessions,
      InFlight, Create, Goto, Touch, callVars, tableVars, historyVars
<1>7. ASSUME NEW c \in Calls, Record(c)
      PROVE  (\A s \in Sessions : ActivityKnown(s))'
  BY <1>7
  DEF VisitsInvariant, TypeOK, ActivityKnown, StageFits, Timed, Answers, Sessions,
      InFlight, Record, Goto, Touch, callVars, tableVars, historyVars
<1>8. ASSUME NEW c \in Calls, Answer(c)
      PROVE  (\A s \in Sessions : ActivityKnown(s))'
  BY <1>8
  DEF VisitsInvariant, TypeOK, ActivityKnown, StageFits, Timed, Answers, Sessions,
      InFlight, Answer, Goto, callVars, tableVars, historyVars
<1>9. ASSUME NEW c \in Calls, Fails(c)
      PROVE  (\A s \in Sessions : ActivityKnown(s))'
  BY <1>9
  DEF VisitsInvariant, TypeOK, ActivityKnown, StageFits, Timed, Answers, Sessions,
      InFlight, Fails, callVars, tableVars, historyVars
<1>10. CASE ClearCookies
  BY <1>10
  DEF VisitsInvariant, TypeOK, ActivityKnown, StageFits, Timed, Answers, Sessions,
      InFlight, ClearCookies, callVars, tableVars, historyVars
<1>11. CASE Tick
  BY <1>11
  DEF VisitsInvariant, TypeOK, ActivityKnown, StageFits, Timed, Answers, Sessions,
      InFlight, Tick, callVars, tableVars, historyVars
<1>12. CASE UNCHANGED vars
  BY <1>12
  DEF VisitsInvariant, TypeOK, ActivityKnown, StageFits, Timed, Answers, Sessions,
      InFlight, vars, callVars, tableVars, historyVars
<1> QED
  BY <1>1, <1>2, <1>3, <1>4, <1>5, <1>6, <1>7, <1>8, <1>9, <1>10, <1>11, <1>12 DEF Next

\* The session cookie names a row.
LEMMA CookieKept ==
    ASSUME VisitsInvariant, [Next]_vars
    PROVE  CookieNamesRow'
<1>1. ASSUME NEW c \in Calls, NEW k \in {"view", "form"}, Send(c, k)
      PROVE  CookieNamesRow'
  BY <1>1
  DEF VisitsInvariant, TypeOK, CookieNamesRow, EmptyJar, StageFits, Timed, Answers,
      Sessions, InFlight, Send, callVars, tableVars, historyVars
<1>2. ASSUME NEW c \in Calls, Arrive(c)
      PROVE  CookieNamesRow'
  BY <1>2
  DEF VisitsInvariant, TypeOK, CookieNamesRow, EmptyJar, StageFits, Timed, Answers,
      Sessions, InFlight, Arrive, Goto, callVars, tableVars, historyVars
<1>3. ASSUME NEW c \in Calls, Find(c)
      PROVE  CookieNamesRow'
  BY <1>3
  DEF VisitsInvariant, TypeOK, CookieNamesRow, EmptyJar, StageFits, Timed, Answers,
      Sessions, InFlight, Find, Goto, Active, callVars, tableVars, historyVars
<1>4. ASSUME NEW c \in Calls, FindNothing(c)
      PROVE  CookieNamesRow'
  BY <1>4
  DEF VisitsInvariant, TypeOK, CookieNamesRow, EmptyJar, StageFits, Timed, Answers,
      Sessions, InFlight, FindNothing, Goto, Active, callVars, tableVars, historyVars
<1>5. ASSUME NEW c \in Calls, Update(c)
      PROVE  CookieNamesRow'
  BY <1>5
  DEF VisitsInvariant, TypeOK, CookieNamesRow, EmptyJar, StageFits, Timed, Answers,
      Sessions, InFlight, Update, Goto, Touch, callVars, tableVars, historyVars
<1>6. ASSUME NEW c \in Calls, Create(c)
      PROVE  CookieNamesRow'
  BY <1>6
  DEF VisitsInvariant, TypeOK, CookieNamesRow, EmptyJar, StageFits, Timed, Answers,
      Sessions, InFlight, Create, Goto, Touch, callVars, tableVars, historyVars
<1>7. ASSUME NEW c \in Calls, Record(c)
      PROVE  CookieNamesRow'
  BY <1>7
  DEF VisitsInvariant, TypeOK, CookieNamesRow, EmptyJar, StageFits, Timed, Answers,
      Sessions, InFlight, Record, Goto, Touch, callVars, tableVars, historyVars
<1>8. ASSUME NEW c \in Calls, Answer(c)
      PROVE  CookieNamesRow'
  BY <1>8
  DEF VisitsInvariant, TypeOK, CookieNamesRow, EmptyJar, StageFits, Timed, Answers,
      Sessions, InFlight, Answer, Goto, callVars, tableVars, historyVars
<1>9. ASSUME NEW c \in Calls, Fails(c)
      PROVE  CookieNamesRow'
  BY <1>9
  DEF VisitsInvariant, TypeOK, CookieNamesRow, EmptyJar, StageFits, Timed, Answers,
      Sessions, InFlight, Fails, callVars, tableVars, historyVars
<1>10. CASE ClearCookies
  BY <1>10
  DEF VisitsInvariant, TypeOK, CookieNamesRow, EmptyJar, StageFits, Timed, Answers,
      Sessions, InFlight, ClearCookies, callVars, tableVars, historyVars
<1>11. CASE Tick
  BY <1>11
  DEF VisitsInvariant, TypeOK, CookieNamesRow, EmptyJar, StageFits, Timed, Answers,
      Sessions, InFlight, Tick, callVars, tableVars, historyVars
<1>12. CASE UNCHANGED vars
  BY <1>12
  DEF VisitsInvariant, TypeOK, CookieNamesRow, EmptyJar, StageFits, Timed, Answers,
      Sessions, InFlight, vars, callVars, tableVars, historyVars
<1> QED
  BY <1>1, <1>2, <1>3, <1>4, <1>5, <1>6, <1>7, <1>8, <1>9, <1>10, <1>11, <1>12 DEF Next

\* Overlapping requests know of each other.
LEMMA MeetKept ==
    ASSUME VisitsInvariant, [Next]_vars
    PROVE  MeetMutually'
<1>1. ASSUME NEW c \in Calls, NEW k \in {"view", "form"}, Send(c, k)
      PROVE  MeetMutually'
  BY <1>1
  DEF VisitsInvariant, TypeOK, MeetMutually, Sessions, InFlight, Send, callVars,
      tableVars, historyVars
<1>2. ASSUME NEW c \in Calls, Arrive(c)
      PROVE  MeetMutually'
  BY <1>2
  DEF VisitsInvariant, TypeOK, MeetMutually, Sessions, InFlight, Arrive, Goto,
      callVars, tableVars, historyVars
<1>3. ASSUME NEW c \in Calls, Find(c)
      PROVE  MeetMutually'
  BY <1>3
  DEF VisitsInvariant, TypeOK, MeetMutually, Sessions, InFlight, Find, Goto, Active,
      callVars, tableVars, historyVars
<1>4. ASSUME NEW c \in Calls, FindNothing(c)
      PROVE  MeetMutually'
  BY <1>4
  DEF VisitsInvariant, TypeOK, MeetMutually, Sessions, InFlight, FindNothing, Goto,
      Active, callVars, tableVars, historyVars
<1>5. ASSUME NEW c \in Calls, Update(c)
      PROVE  MeetMutually'
  BY <1>5
  DEF VisitsInvariant, TypeOK, MeetMutually, Sessions, InFlight, Update, Goto, Touch,
      callVars, tableVars, historyVars
<1>6. ASSUME NEW c \in Calls, Create(c)
      PROVE  MeetMutually'
  BY <1>6
  DEF VisitsInvariant, TypeOK, MeetMutually, Sessions, InFlight, Create, Goto, Touch,
      callVars, tableVars, historyVars
<1>7. ASSUME NEW c \in Calls, Record(c)
      PROVE  MeetMutually'
  BY <1>7
  DEF VisitsInvariant, TypeOK, MeetMutually, Sessions, InFlight, Record, Goto, Touch,
      callVars, tableVars, historyVars
<1>8. ASSUME NEW c \in Calls, Answer(c)
      PROVE  MeetMutually'
  BY <1>8
  DEF VisitsInvariant, TypeOK, MeetMutually, Sessions, InFlight, Answer, Goto,
      callVars, tableVars, historyVars
<1>9. ASSUME NEW c \in Calls, Fails(c)
      PROVE  MeetMutually'
  BY <1>9
  DEF VisitsInvariant, TypeOK, MeetMutually, Sessions, InFlight, Fails, callVars,
      tableVars, historyVars
<1>10. CASE ClearCookies
  BY <1>10
  DEF VisitsInvariant, TypeOK, MeetMutually, Sessions, InFlight, ClearCookies,
      callVars, tableVars, historyVars
<1>11. CASE Tick
  BY <1>11
  DEF VisitsInvariant, TypeOK, MeetMutually, Sessions, InFlight, Tick, callVars,
      tableVars, historyVars
<1>12. CASE UNCHANGED vars
  BY <1>12
  DEF VisitsInvariant, TypeOK, MeetMutually, Sessions, InFlight, vars, callVars,
      tableVars, historyVars
<1> QED
  BY <1>1, <1>2, <1>3, <1>4, <1>5, <1>6, <1>7, <1>8, <1>9, <1>10, <1>11, <1>12 DEF Next

\* Later activity is that of an overlapping request.
LEMMA LaterKept ==
    ASSUME VisitsInvariant, [Next]_vars
    PROVE  (\A d \in Calls : LaterWasMet(d))'
<1>1. ASSUME NEW c \in Calls, NEW k \in {"view", "form"}, Send(c, k)
      PROVE  (\A d \in Calls : LaterWasMet(d))'
  BY <1>1
  DEF VisitsInvariant, TypeOK, LaterWasMet, MeetMutually, StageFits, ActivityKnown,
      Timed, Answers, Sessions, InFlight, Send, callVars, tableVars, historyVars
<1>2. ASSUME NEW c \in Calls, Arrive(c)
      PROVE  (\A d \in Calls : LaterWasMet(d))'
  <2> SUFFICES ASSUME NEW d \in Calls
               PROVE  LaterWasMet(d)'
    OBVIOUS
  <2>1. /\ stage[c] = "sent" /\ at' = [at EXCEPT ![c] = now] /\ now \in 0..MaxTime
        /\ \E to \in {"find", "create", "done"} : stage' = [stage EXCEPT ![c] = to]
        /\ UNCHANGED <<lastActivityAt, met, target>>
    BY <1>2 DEF Arrive, Goto, tableVars, historyVars, VisitsInvariant, TypeOK
  <2>2. CASE d = c
    <3>1. \A s \in Sessions : lastActivityAt[s] <= now /\ lastActivityAt[s] \in Int
      BY DEF VisitsInvariant, ActivityKnown, TypeOK
    <3> QED
      BY <2>1, <2>2, <3>1 DEF LaterWasMet, VisitsInvariant, TypeOK
  <2>3. CASE d # c
    <3>1. stage'[d] = stage[d] /\ at'[d] = at[d] /\ LaterWasMet(d)
      BY <2>1, <2>3 DEF VisitsInvariant, TypeOK
    <3>2. \A e \in Calls : stage[e] \in {"answer", "done"} =>
              stage'[e] = stage[e] /\ at'[e] = at[e]
      BY <2>1 DEF VisitsInvariant, TypeOK
    <3>3. met[d] \subseteq Calls
      BY DEF VisitsInvariant, TypeOK
    <3> QED
      BY <2>1, <3>1, <3>2, <3>3 DEF LaterWasMet
  <2> QED
    BY <2>2, <2>3
<1>3. ASSUME NEW c \in Calls, Find(c)
      PROVE  (\A d \in Calls : LaterWasMet(d))'
  BY <1>3
  DEF VisitsInvariant, TypeOK, LaterWasMet, MeetMutually, StageFits, ActivityKnown,
      Timed, Answers, Sessions, InFlight, Find, Goto, Active, callVars, tableVars,
      historyVars
<1>4. ASSUME NEW c \in Calls, FindNothing(c)
      PROVE  (\A d \in Calls : LaterWasMet(d))'
  BY <1>4
  DEF VisitsInvariant, TypeOK, LaterWasMet, MeetMutually, StageFits, ActivityKnown,
      Timed, Answers, Sessions, InFlight, FindNothing, Goto, Active, callVars,
      tableVars, historyVars
<1>5. ASSUME NEW c \in Calls, Update(c)
      PROVE  (\A d \in Calls : LaterWasMet(d))'
  BY <1>5
  DEF VisitsInvariant, TypeOK, LaterWasMet, MeetMutually, StageFits, ActivityKnown,
      Timed, Answers, Sessions, InFlight, Update, Goto, Touch, callVars, tableVars,
      historyVars
<1>6. ASSUME NEW c \in Calls, Create(c)
      PROVE  (\A d \in Calls : LaterWasMet(d))'
  BY <1>6
  DEF VisitsInvariant, TypeOK, LaterWasMet, MeetMutually, StageFits, ActivityKnown,
      Timed, Answers, Sessions, InFlight, Create, Goto, Touch, callVars, tableVars,
      historyVars
<1>7. ASSUME NEW c \in Calls, Record(c)
      PROVE  (\A d \in Calls : LaterWasMet(d))'
  BY <1>7
  DEF VisitsInvariant, TypeOK, LaterWasMet, MeetMutually, StageFits, ActivityKnown,
      Timed, Answers, Sessions, InFlight, Record, Goto, Touch, callVars, tableVars,
      historyVars
<1>8. ASSUME NEW c \in Calls, Answer(c)
      PROVE  (\A d \in Calls : LaterWasMet(d))'
  BY <1>8
  DEF VisitsInvariant, TypeOK, LaterWasMet, MeetMutually, StageFits, ActivityKnown,
      Timed, Answers, Sessions, InFlight, Answer, Goto, callVars, tableVars, historyVars
<1>9. ASSUME NEW c \in Calls, Fails(c)
      PROVE  (\A d \in Calls : LaterWasMet(d))'
  BY <1>9
  DEF VisitsInvariant, TypeOK, LaterWasMet, MeetMutually, StageFits, ActivityKnown,
      Timed, Answers, Sessions, InFlight, Fails, callVars, tableVars, historyVars
<1>10. CASE ClearCookies
  BY <1>10
  DEF VisitsInvariant, TypeOK, LaterWasMet, MeetMutually, StageFits, ActivityKnown,
      Timed, Answers, Sessions, InFlight, ClearCookies, callVars, tableVars, historyVars
<1>11. CASE Tick
  BY <1>11
  DEF VisitsInvariant, TypeOK, LaterWasMet, MeetMutually, StageFits, ActivityKnown,
      Timed, Answers, Sessions, InFlight, Tick, callVars, tableVars, historyVars
<1>12. CASE UNCHANGED vars
  BY <1>12
  DEF VisitsInvariant, TypeOK, LaterWasMet, MeetMutually, StageFits, ActivityKnown,
      Timed, Answers, Sessions, InFlight, vars, callVars, tableVars, historyVars
<1> QED
  BY <1>1, <1>2, <1>3, <1>4, <1>5, <1>6, <1>7, <1>8, <1>9, <1>10, <1>11, <1>12 DEF Next

\* What a page view has found and the visitor it works with stay, and it only
\* meets more.
LEMMA ViewsStay ==
    ASSUME VisitsInvariant, [Next]_vars, NEW e \in Calls, target[e] # NoSession
    PROVE  /\ kind'[e] = kind[e] /\ target'[e] = target[e] /\ visitor'[e] = visitor[e]
           /\ met[e] \subseteq met'[e]
<1>1. stage[e] \notin {"idle", "sent", "find", "create"}
  BY DEF VisitsInvariant, StageFits
<1>2. ASSUME NEW c \in Calls, NEW k \in {"view", "form"}, Send(c, k)
      PROVE  /\ kind'[e] = kind[e] /\ target'[e] = target[e] /\ visitor'[e] = visitor[e]
             /\ met[e] \subseteq met'[e]
  BY <1>1, <1>2 DEF VisitsInvariant, TypeOK, Send
<1>3. ASSUME NEW c \in Calls, Arrive(c) \/ Find(c) \/ FindNothing(c) \/ Create(c)
      PROVE  kind' = kind /\ target'[e] = target[e] /\ visitor'[e] = visitor[e] /\ met' = met
  BY <1>1, <1>3
  DEF VisitsInvariant, TypeOK, Arrive, Find, FindNothing, Create, Goto, historyVars
<1>4. ASSUME NEW c \in Calls, Update(c) \/ Record(c) \/ Answer(c) \/ Fails(c)
      PROVE  UNCHANGED <<kind, target, visitor, met>>
  BY <1>4 DEF Update, Record, Answer, Fails, historyVars
<1>5. ASSUME ClearCookies \/ Tick \/ UNCHANGED vars
      PROVE  UNCHANGED <<kind, target, visitor, met>>
  BY <1>5 DEF ClearCookies, Tick, vars, callVars, historyVars
<1> QED
  BY <1>2, <1>3, <1>4, <1>5 DEF Next

\* So rivals stay rivals.
LEMMA RivalsStay ==
    ASSUME VisitsInvariant, [Next]_vars, NEW s \in Sessions, NEW v, NEW w, Rivals(s, v, w)
    PROVE  Rivals(s, v, w)'
<1>1. PICK c \in Calls : \E d \in met[c] :
          /\ kind[c] = "view" /\ target[c] = s /\ visitor[c] = v
          /\ kind[d] = "view" /\ target[d] = s /\ visitor[d] = w
  BY DEF Rivals
<1>2. PICK d \in met[c] : kind[d] = "view" /\ target[d] = s /\ visitor[d] = w
  BY <1>1
<1>3. d \in Calls /\ s # NoSession
  BY DEF VisitsInvariant, TypeOK, Sessions
<1> QED
  BY <1>1, <1>2, <1>3, ViewsStay DEF Rivals

\* Two page views in flight that have found the same session are rivals, and
\* have found one of those that there are.
LEMMA InFlightAreRivals ==
    ASSUME VisitsInvariant, NEW c \in Calls, NEW d \in Calls, c # d,
           stage[c] \in {"update", "answer"}, stage[d] \in {"update", "answer"},
           kind[c] = "view", kind[d] = "view", target[c] = target[d]
    PROVE  target[c] \in Sessions /\ Rivals(target[c], visitor[c], visitor[d])
<1>1. target[c] \in Sessions
  BY DEF VisitsInvariant, TypeOK, StageFits
<1>2. d \in met[c]
  BY DEF VisitsInvariant, MeetMutually, InFlight
<1> QED
  BY <1>1, <1>2 DEF Rivals

\* A step that leaves cookies and rows alone, and is no answer and no end of a
\* look-up, keeps what is said of the visitors.
VisitorsFrame ==
    /\ jar' = jar /\ visitorToken' = visitorToken
    /\ \A d \in Calls : stage'[d] \in {"update", "answer"} =>
          \/ kind[d] = "form" /\ kind'[d] = "form"
          \/ /\ stage'[d] = stage[d] /\ kind'[d] = kind[d]
             /\ target'[d] = target[d] /\ visitor'[d] = visitor[d]

LEMMA FrameAgrees ==
    ASSUME VisitsInvariant, [Next]_vars, VisitorsFrame
    PROVE  VisitorsAgree' /\ (\A d \in Calls : CookieOrRival(d))'
<1>1. ASSUME NEW d \in Calls, kind'[d] = "view", stage'[d] = "answer"
      PROVE  \/ visitor'[d] = visitorToken'[target'[d]]
             \/ Rivals(target[d], visitor[d], visitorToken[target[d]])'
  <2>1. /\ stage[d] = "answer" /\ kind[d] = "view" /\ target'[d] = target[d]
        /\ visitor'[d] = visitor[d] /\ visitorToken' = visitorToken
    BY <1>1 DEF VisitorsFrame
  <2>2. target[d] \in Sessions
    BY <2>1 DEF VisitsInvariant, TypeOK, StageFits
  <2>3. CASE visitor[d] = visitorToken[target[d]]
    BY <2>1, <2>3
  <2>4. CASE Rivals(target[d], visitor[d], visitorToken[target[d]])
    BY <2>1, <2>2, <2>4, RivalsStay DEF Rivals
  <2> QED
    BY <2>1, <2>3, <2>4 DEF VisitsInvariant, VisitorsAgree
<1>2. ASSUME jar'.session # NoSession, jar'.visitor # NoVisitor
      PROVE  \/ jar'.visitor = visitorToken'[jar'.session]
             \/ Rivals(jar.session, jar.visitor, visitorToken[jar.session])'
  <2>1. jar' = jar /\ visitorToken' = visitorToken /\ jar.session \in Sessions
    BY <1>2 DEF VisitorsFrame, VisitsInvariant, TypeOK
  <2> QED
    BY <1>2, <2>1, RivalsStay DEF Rivals, VisitsInvariant, VisitorsAgree
<1>3. ASSUME NEW d \in Calls
      PROVE  CookieOrRival(d)'
  <2> SUFFICES ASSUME stage'[d] = "update", jar'.session = target'[d], jar'.visitor # NoVisitor,
                      visitorToken'[target'[d]] # NoVisitor
               PROVE  \/ jar'.visitor = visitor'[d]
                      \/ Rivals(target[d], jar.visitor, visitor[d])'
    BY DEF CookieOrRival
  <2>0. kind'[d] = "view"
    BY FitsKept DEF StageFits
  <2>1. /\ stage[d] = "update" /\ target'[d] = target[d] /\ visitor'[d] = visitor[d]
        /\ jar' = jar /\ visitorToken' = visitorToken
    BY <2>0 DEF VisitorsFrame
  <2>2. target[d] \in Sessions
    BY <2>1 DEF VisitsInvariant, TypeOK, StageFits
  <2> QED
    BY <2>1, <2>2, RivalsStay DEF Rivals, VisitsInvariant, CookieOrRival
<1> QED
  BY <1>1, <1>2, <1>3 DEF VisitorsAgree

\* A page view has found its session: its visitor is that of the row.
LEMMA FindAgrees ==
    ASSUME VisitsInvariant, [Next]_vars, NEW c \in Calls, Find(c), kind[c] = "view"
    PROVE  VisitorsAgree' /\ (\A d \in Calls : CookieOrRival(d))'
<1> DEFINE s == presented[c]
<1>1. /\ stage[c] = "find" /\ s \in Sessions
      /\ stage' = [stage EXCEPT ![c] = "update"] /\ target' = [target EXCEPT ![c] = s]
      /\ UNCHANGED <<jar, kind, visitorToken, met>>
      /\ visitorToken[s] # NoVisitor => visitor'[c] = visitorToken[s]
      /\ \A d \in Calls \ {c} : visitor'[d] = visitor[d]
  BY DEF Find, Goto, VisitsInvariant, TypeOK, StageFits, tableVars, historyVars
<1>2. ASSUME NEW d \in Calls, kind'[d] = "view", stage'[d] = "answer"
      PROVE  \/ visitor'[d] = visitorToken'[target'[d]]
             \/ Rivals(target[d], visitor[d], visitorToken[target[d]])'
  <2>1. /\ stage[d] = "answer" /\ kind[d] = "view" /\ target'[d] = target[d]
        /\ visitor'[d] = visitor[d] /\ visitorToken' = visitorToken
    BY <1>1, <1>2 DEF VisitsInvariant, TypeOK
  <2>2. target[d] \in Sessions
    BY <2>1 DEF VisitsInvariant, TypeOK, StageFits
  <2> QED
    BY <2>1, <2>2, RivalsStay DEF Rivals, VisitsInvariant, VisitorsAgree
<1>3. ASSUME jar.session # NoSession, jar.visitor # NoVisitor
      PROVE  \/ jar.visitor = visitorToken[jar.session]
             \/ Rivals(jar.session, jar.visitor, visitorToken[jar.session])'
  <2>1. jar.session \in Sessions
    BY <1>3 DEF VisitsInvariant, TypeOK
  <2>2. \/ jar.visitor = visitorToken[jar.session]
        \/ Rivals(jar.session, jar.visitor, visitorToken[jar.session])
    BY <1>3 DEF VisitsInvariant, VisitorsAgree
  <2> QED
    BY <1>1, <2>1, <2>2, RivalsStay DEF Rivals
<1>4. ASSUME NEW d \in Calls
      PROVE  CookieOrRival(d)'
  <2> SUFFICES ASSUME stage'[d] = "update", jar.session = target'[d], jar.visitor # NoVisitor,
                      visitorToken[target'[d]] # NoVisitor
               PROVE  \/ jar.visitor = visitor'[d]
                      \/ Rivals(target[d], jar.visitor, visitor[d])'
    BY <1>1 DEF CookieOrRival
  <2>1. CASE d = c
    <3>1. target'[d] = s /\ visitor'[d] = visitorToken[s] /\ jar.session = s
      BY <1>1, <2>1 DEF VisitsInvariant, TypeOK
    <3>2. jar.session # NoSession
      BY <1>1, <3>1 DEF Sessions
    <3>3. CASE jar.visitor = visitorToken[jar.session]
      BY <3>1, <3>3
    <3>4. CASE Rivals(jar.session, jar.visitor, visitorToken[jar.session])'
      BY <1>1, <3>1, <3>4 DEF Rivals
    <3> QED
      BY <1>3, <3>2, <3>3, <3>4
  <2>2. CASE d # c
    <3>1. stage[d] = "update" /\ target'[d] = target[d] /\ visitor'[d] = visitor[d]
      BY <1>1, <2>2 DEF VisitsInvariant, TypeOK
    <3>2. target[d] \in Sessions
      BY <3>1 DEF VisitsInvariant, TypeOK, StageFits
    <3>3. jar.visitor = visitor[d] \/ Rivals(target[d], jar.visitor, visitor[d])
      BY <3>1 DEF VisitsInvariant, CookieOrRival
    <3> QED
      BY <1>1, <3>1, <3>2, <3>3, RivalsStay DEF Rivals
  <2> QED
    BY <2>1, <2>2
<1> QED
  BY <1>1, <1>2, <1>3, <1>4 DEF VisitorsAgree, Rivals

\* A page view has written its visitor into the row.
LEMMA UpdateAgrees ==
    ASSUME VisitsInvariant, [Next]_vars, NEW c \in Calls, Update(c)
    PROVE  VisitorsAgree' /\ (\A d \in Calls : CookieOrRival(d))'
<1> DEFINE s == target[c]
<1>1. /\ stage[c] = "update" /\ kind[c] = "view" /\ s \in Sessions
      /\ stage' = [stage EXCEPT ![c] = "answer"]
      /\ visitorToken' = [visitorToken EXCEPT ![s] = visitor[c]]
      /\ UNCHANGED <<jar, kind, target, visitor, met>>
  BY DEF Update, Goto, VisitsInvariant, TypeOK, StageFits
<1>2. \A u, v, w : Rivals(u, v, w)' <=> Rivals(u, v, w)
  BY <1>1 DEF Rivals
<1>3. ASSUME NEW d \in Calls, kind[d] = "view", stage'[d] = "answer"
      PROVE  \/ visitor[d] = visitorToken'[target[d]]
             \/ Rivals(target[d], visitor[d], visitorToken'[target[d]])
  <2>1. CASE d = c
    BY <1>1, <2>1 DEF VisitsInvariant, TypeOK
  <2>2. CASE d # c /\ target[d] = s
    <3>1. stage[d] = "answer" /\ visitorToken'[s] = visitor[c]
      BY <1>1, <1>3, <2>2 DEF VisitsInvariant, TypeOK
    <3> QED
      BY <1>1, <1>3, <2>2, <3>1, InFlightAreRivals
  <2>3. CASE d # c /\ target[d] # s
    <3>1. stage[d] = "answer" /\ visitorToken'[target[d]] = visitorToken[target[d]]
      BY <1>1, <1>3, <2>3 DEF VisitsInvariant, TypeOK, StageFits
    <3> QED
      BY <1>3, <3>1 DEF VisitsInvariant, VisitorsAgree
  <2> QED
    BY <2>1, <2>2, <2>3
<1>4. ASSUME jar.session # NoSession, jar.visitor # NoVisitor
      PROVE  /\ \/ jar.visitor = visitorToken'[jar.session]
                \/ Rivals(jar.session, jar.visitor, visitorToken'[jar.session])
             /\ visitorToken[jar.session] # NoVisitor
  <2>1. visitorToken[jar.session] # NoVisitor
    <3>1. ASSUME Rivals(jar.session, jar.visitor, visitorToken[jar.session])
          PROVE  visitorToken[jar.session] # NoVisitor
      <4>1. PICK x \in Calls : \E d \in met[x] :
                /\ kind[d] = "view" /\ target[d] = jar.session
                /\ visitor[d] = visitorToken[jar.session]
        BY <3>1 DEF Rivals
      <4>2. PICK d \in met[x] :
                /\ kind[d] = "view" /\ target[d] = jar.session
                /\ visitor[d] = visitorToken[jar.session]
        BY <4>1
      <4>3. d \in Calls
        BY DEF VisitsInvariant, TypeOK
      <4> QED
        BY <1>4, <4>2, <4>3 DEF VisitsInvariant, StageFits
    <3> QED
      BY <1>4, <3>1 DEF VisitsInvariant, VisitorsAgree
  <2>2. CASE jar.session = s
    <3>1. visitorToken'[s] = visitor[c]
      BY <1>1 DEF VisitsInvariant, TypeOK
    <3> QED
      BY <1>1, <1>4, <2>1, <2>2, <3>1 DEF VisitsInvariant, CookieOrRival
  <2>3. CASE jar.session # s
    <3>1. visitorToken'[jar.session] = visitorToken[jar.session]
      BY <1>1, <1>4, <2>3 DEF VisitsInvariant, TypeOK
    <3> QED
      BY <1>4, <2>1, <3>1 DEF VisitsInvariant, VisitorsAgree
  <2> QED
    BY <2>2, <2>3
<1>5. ASSUME NEW d \in Calls
      PROVE  CookieOrRival(d)'
  <2> SUFFICES ASSUME stage'[d] = "update", jar.session = target[d], jar.visitor # NoVisitor
               PROVE  jar.visitor = visitor[d] \/ Rivals(target[d], jar.visitor, visitor[d])
    BY <1>1, <1>2 DEF CookieOrRival, Rivals
  <2>1. stage[d] = "update"
    BY <1>1 DEF VisitsInvariant, TypeOK
  <2>2. target[d] # NoSession
    BY <2>1 DEF VisitsInvariant, StageFits
  <2> QED
    BY <1>4, <2>1, <2>2 DEF VisitsInvariant, CookieOrRival
<1> QED
  BY <1>1, <1>3, <1>4, <1>5 DEF VisitorsAgree, Rivals

\* A page view has made a session, which nobody has found yet.
LEMMA CreateAgrees ==
    ASSUME VisitsInvariant, [Next]_vars, NEW c \in Calls, Create(c)
    PROVE  VisitorsAgree' /\ (\A d \in Calls : CookieOrRival(d))'
<1>1. /\ stage[c] = "create" /\ startedAt[c] = NoTime /\ c \in Sessions
      /\ stage' = [stage EXCEPT ![c] = "answer"] /\ target' = [target EXCEPT ![c] = c]
      /\ visitorToken' = [visitorToken EXCEPT ![c] = visitor[c]]
      /\ UNCHANGED <<jar, kind, visitor, met>>
  BY DEF Create, Goto, VisitsInvariant, TypeOK, OwnSession, Sessions
<1>2. jar.session # c
  BY <1>1 DEF VisitsInvariant, CookieNamesRow, Sessions
<1>3. ASSUME NEW d \in Calls, kind'[d] = "view", stage'[d] = "answer"
      PROVE  \/ visitor'[d] = visitorToken'[target'[d]]
             \/ Rivals(target[d], visitor[d], visitorToken[target[d]])'
  <2>1. CASE d = c
    BY <1>1, <2>1 DEF VisitsInvariant, TypeOK
  <2>2. CASE d # c
    <3>1. stage[d] = "answer" /\ kind[d] = "view" /\ target'[d] = target[d]
      BY <1>1, <1>3, <2>2 DEF VisitsInvariant, TypeOK
    <3>2. target[d] \in Sessions /\ target[d] # c
      BY <1>1, <3>1 DEF VisitsInvariant, TypeOK, StageFits
    <3>3. visitor'[d] = visitor[d] /\ visitorToken'[target[d]] = visitorToken[target[d]]
      BY <1>1, <3>2 DEF VisitsInvariant, TypeOK
    <3> QED
      BY <3>1, <3>2, <3>3, RivalsStay DEF Rivals, VisitsInvariant, VisitorsAgree
  <2> QED
    BY <2>1, <2>2
<1>4. ASSUME jar.session # NoSession, jar.visitor # NoVisitor
      PROVE  \/ jar.visitor = visitorToken'[jar.session]
             \/ Rivals(jar.session, jar.visitor, visitorToken[jar.session])'
  <2>1. jar.session \in Sessions
    BY <1>4 DEF VisitsInvariant, TypeOK
  <2>2. visitorToken'[jar.session] = visitorToken[jar.session]
    BY <1>1, <1>2, <2>1 DEF VisitsInvariant, TypeOK
  <2>3. \/ jar.visitor = visitorToken[jar.session]
        \/ Rivals(jar.session, jar.visitor, visitorToken[jar.session])
    BY <1>4 DEF VisitsInvariant, VisitorsAgree
  <2> QED
    BY <1>1, <2>1, <2>2, <2>3, RivalsStay DEF Rivals
<1>5. ASSUME NEW d \in Calls
      PROVE  CookieOrRival(d)'
  <2> SUFFICES ASSUME stage'[d] = "update", jar.session = target'[d], jar.visitor # NoVisitor,
                      visitorToken'[target'[d]] # NoVisitor
               PROVE  \/ jar.visitor = visitor'[d]
                      \/ Rivals(target[d], jar.visitor, visitor[d])'
    BY <1>1 DEF CookieOrRival
  <2>1. stage[d] = "update" /\ d # c
    BY <1>1 DEF VisitsInvariant, TypeOK
  <2>2. target'[d] = target[d] /\ visitor'[d] = visitor[d] /\ target[d] \in Sessions
    BY <1>1, <2>1 DEF VisitsInvariant, TypeOK, StageFits
  <2>3. visitorToken'[target[d]] = visitorToken[target[d]]
    BY <1>1, <1>2, <2>2 DEF VisitsInvariant, TypeOK
  <2>4. jar.visitor = visitor[d] \/ Rivals(target[d], jar.visitor, visitor[d])
    BY <2>1, <2>2, <2>3 DEF VisitsInvariant, CookieOrRival
  <2>5. CASE jar.visitor = visitor[d]
    BY <1>1, <2>2, <2>5
  <2>6. CASE Rivals(target[d], jar.visitor, visitor[d])
    <3> PICK s \in Sessions : s = target[d]
      BY <2>2
    <3> PICK v, w : v = jar.visitor /\ w = visitor[d]
      OBVIOUS
    <3>1. Rivals(s, v, w)
      BY <2>6
    <3>2. Rivals(s, v, w)'
      BY <3>1, RivalsStay
    <3>3. s = target'[d] /\ v = jar'.visitor /\ w = visitor'[d]
      BY <1>1, <2>2
    <3>4. Rivals(target[d], jar.visitor, visitor[d])'
      BY <3>2, <3>3 DEF Rivals
    <3> QED
      BY <3>4
  <2> QED
    BY <2>4, <2>5, <2>6
<1> QED
  BY <1>1, <1>3, <1>4, <1>5 DEF VisitorsAgree, Rivals

\* The answer to a page view has set the cookies.
LEMMA AnswerAgrees ==
    ASSUME VisitsInvariant, [Next]_vars, NEW c \in Calls, Answer(c), kind[c] = "view"
    PROVE  VisitorsAgree' /\ (\A d \in Calls : CookieOrRival(d))'
<1>1. /\ stage[c] = "answer" /\ target[c] \in Sessions
      /\ stage' = [stage EXCEPT ![c] = "done"]
      /\ jar'.session = target[c] /\ jar'.visitor = visitor[c]
      /\ UNCHANGED <<kind, target, visitor, visitorToken, met>>
  BY DEF Answer, Goto, VisitsInvariant, TypeOK, StageFits, tableVars, historyVars
<1>2. \A u, v, w : Rivals(u, v, w)' <=> Rivals(u, v, w)
  BY <1>1 DEF Rivals
<1>3. ASSUME NEW d \in Calls, kind[d] = "view", stage'[d] = "answer"
      PROVE  \/ visitor[d] = visitorToken[target[d]]
             \/ Rivals(target[d], visitor[d], visitorToken[target[d]])
  <2>1. stage[d] = "answer"
    BY <1>1, <1>3 DEF VisitsInvariant, TypeOK
  <2> QED
    BY <1>3, <2>1 DEF VisitsInvariant, VisitorsAgree
<1>4. \/ visitor[c] = visitorToken[target[c]]
      \/ Rivals(target[c], visitor[c], visitorToken[target[c]])
  BY <1>1 DEF VisitsInvariant, VisitorsAgree
<1>5. ASSUME NEW d \in Calls
      PROVE  CookieOrRival(d)'
  <2> SUFFICES ASSUME stage'[d] = "update", target[c] = target[d]
               PROVE  visitor[c] = visitor[d] \/ Rivals(target[d], visitor[c], visitor[d])
    BY <1>1, <1>2 DEF CookieOrRival, Rivals
  <2>1. stage[d] = "update" /\ d # c
    BY <1>1 DEF VisitsInvariant, TypeOK
  <2>2. kind[d] = "view"
    BY <2>1 DEF VisitsInvariant, StageFits
  <2> QED
    BY <1>1, <2>1, <2>2, InFlightAreRivals
<1> QED
  BY <1>1, <1>3, <1>4, <1>5 DEF VisitorsAgree, Rivals

\* Cookies, answers and rows name the same visitor, or two rivals.
LEMMA AgreeKept ==
    ASSUME VisitsInvariant, [Next]_vars
    PROVE  VisitorsAgree' /\ (\A d \in Calls : CookieOrRival(d))'
<1>1. ASSUME NEW c \in Calls, NEW k \in {"view", "form"}, Send(c, k)
      PROVE  VisitorsFrame
  BY <1>1 DEF VisitorsFrame, Send, tableVars, VisitsInvariant, TypeOK
<1>2. ASSUME NEW c \in Calls, Arrive(c) \/ FindNothing(c) \/ Fails(c)
      PROVE  VisitorsFrame
  BY <1>2 DEF VisitorsFrame, Arrive, FindNothing, Fails, Goto, tableVars, VisitsInvariant, TypeOK
<1>3. ASSUME NEW c \in Calls, kind[c] = "form", Find(c) \/ Answer(c)
      PROVE  VisitorsFrame
  BY <1>3 DEF VisitorsFrame, Find, Answer, Goto, tableVars, VisitsInvariant, TypeOK
<1>4. ASSUME NEW c \in Calls, Record(c)
      PROVE  VisitorsFrame
  BY <1>4 DEF VisitorsFrame, Record, Goto, VisitsInvariant, TypeOK, StageFits
<1>5. CASE Tick \/ UNCHANGED vars
  BY <1>5, FrameAgrees DEF VisitorsFrame, Tick, vars, callVars, tableVars
<1>6. CASE ClearCookies
  <2>1. jar'.session = NoSession /\ UNCHANGED <<kind, stage, target, visitor, visitorToken, met>>
    BY <1>6 DEF ClearCookies, EmptyJar, callVars, tableVars
  <2>2. \A u, v, w : Rivals(u, v, w)' <=> Rivals(u, v, w)
    BY <2>1 DEF Rivals
  <2>3. \A d \in Calls : stage[d] = "update" => target[d] # NoSession
    BY DEF VisitsInvariant, StageFits
  <2> QED
    BY <2>1, <2>2, <2>3 DEF VisitsInvariant, VisitorsAgree, CookieOrRival, Rivals
<1>7. ASSUME NEW c \in Calls, Find(c) \/ Answer(c)
      PROVE  kind[c] \in {"view", "form"}
  BY <1>7 DEF Find, Answer, Goto, InFlight, VisitsInvariant, TypeOK, StageFits
<1> QED
  BY <1>1, <1>2, <1>3, <1>4, <1>5, <1>6, <1>7, FrameAgrees, FindAgrees, UpdateAgrees,
     CreateAgrees, AnswerAgrees
  DEF Next

\* Visits stay accounted for while the visitor takes one step at a time.
LEMMA SplitKept ==
    ASSUME VisitsInvariant, [Next]_vars
    PROVE  OneVisitAtATime'
<1>1. ASSUME NEW c \in Calls, NEW k \in {"view", "form"}, Send(c, k)
      PROVE  OneVisitAtATime'
  BY <1>1
  DEF VisitsInvariant, TypeOK, OneVisitAtATime, Accounted, Attended, Over, Orderly,
      MeetMutually, StageFits, OwnSession, Timed, ActivityKnown, Active, Answers,
      Sessions, InFlight, Send, callVars, tableVars, historyVars
<1>2. ASSUME NEW c \in Calls, Arrive(c)
      PROVE  OneVisitAtATime'
  BY <1>2
  DEF VisitsInvariant, TypeOK, OneVisitAtATime, Accounted, Attended, Over, Orderly,
      MeetMutually, StageFits, OwnSession, Timed, ActivityKnown, Active, Answers,
      Sessions, InFlight, Arrive, Goto, callVars, tableVars, historyVars
<1>3. ASSUME NEW c \in Calls, Find(c)
      PROVE  OneVisitAtATime'
  BY <1>3
  DEF VisitsInvariant, TypeOK, OneVisitAtATime, Accounted, Attended, Over, Orderly,
      MeetMutually, StageFits, OwnSession, Timed, ActivityKnown, Active, Answers,
      Sessions, InFlight, Find, Goto, Active, callVars, tableVars, historyVars
<1>4. ASSUME NEW c \in Calls, FindNothing(c)
      PROVE  OneVisitAtATime'
  BY <1>4
  DEF VisitsInvariant, TypeOK, OneVisitAtATime, Accounted, Attended, Over, Orderly,
      MeetMutually, StageFits, OwnSession, Timed, ActivityKnown, Active, Answers,
      Sessions, InFlight, FindNothing, Goto, Active, callVars, tableVars, historyVars
<1>5. ASSUME NEW c \in Calls, Update(c)
      PROVE  OneVisitAtATime'
  BY <1>5
  DEF VisitsInvariant, TypeOK, OneVisitAtATime, Accounted, Attended, Over, Orderly,
      MeetMutually, StageFits, OwnSession, Timed, ActivityKnown, Active, Answers,
      Sessions, InFlight, Update, Goto, Touch, callVars, tableVars, historyVars
<1>6. ASSUME NEW c \in Calls, Create(c)
      PROVE  OneVisitAtATime'
  BY <1>6
  DEF VisitsInvariant, TypeOK, OneVisitAtATime, Accounted, Attended, Over, Orderly,
      MeetMutually, StageFits, OwnSession, Timed, ActivityKnown, Active, Answers,
      Sessions, InFlight, Create, Goto, Touch, callVars, tableVars, historyVars
<1>7. ASSUME NEW c \in Calls, Record(c)
      PROVE  OneVisitAtATime'
  BY <1>7
  DEF VisitsInvariant, TypeOK, OneVisitAtATime, Accounted, Attended, Over, Orderly,
      MeetMutually, StageFits, OwnSession, Timed, ActivityKnown, Active, Answers,
      Sessions, InFlight, Record, Goto, Touch, callVars, tableVars, historyVars
<1>8. ASSUME NEW c \in Calls, Answer(c)
      PROVE  OneVisitAtATime'
  BY <1>8
  DEF VisitsInvariant, TypeOK, OneVisitAtATime, Accounted, Attended, Over, Orderly,
      MeetMutually, StageFits, OwnSession, Timed, ActivityKnown, Active, Answers,
      Sessions, InFlight, Answer, Goto, callVars, tableVars, historyVars
<1>9. ASSUME NEW c \in Calls, Fails(c)
      PROVE  OneVisitAtATime'
  BY <1>9
  DEF VisitsInvariant, TypeOK, OneVisitAtATime, Accounted, Attended, Over, Orderly,
      MeetMutually, StageFits, OwnSession, Timed, ActivityKnown, Active, Answers,
      Sessions, InFlight, Fails, callVars, tableVars, historyVars
<1>10. CASE ClearCookies
  BY <1>10
  DEF VisitsInvariant, TypeOK, OneVisitAtATime, Accounted, Attended, Over, Orderly,
      MeetMutually, StageFits, OwnSession, Timed, ActivityKnown, Active, Answers,
      Sessions, InFlight, ClearCookies, callVars, tableVars, historyVars
<1>11. CASE Tick
  BY <1>11
  DEF VisitsInvariant, TypeOK, OneVisitAtATime, Accounted, Attended, Over, Orderly,
      MeetMutually, StageFits, OwnSession, Timed, ActivityKnown, Active, Answers,
      Sessions, InFlight, Tick, callVars, tableVars, historyVars
<1>12. CASE UNCHANGED vars
  BY <1>12
  DEF VisitsInvariant, TypeOK, OneVisitAtATime, Accounted, Attended, Over, Orderly,
      MeetMutually, StageFits, OwnSession, Timed, ActivityKnown, Active, Answers,
      Sessions, InFlight, vars, callVars, tableVars, historyVars
<1> QED
  BY <1>1, <1>2, <1>3, <1>4, <1>5, <1>6, <1>7, <1>8, <1>9, <1>10, <1>11, <1>12 DEF Next

-----------------------------------------------------------------------------
(* Theorems.                                                               *)

\* The invariant holds at the start.
LEMMA InitialState == Init => VisitsInvariant
<1> SUFFICES ASSUME Init
             PROVE  VisitsInvariant
  OBVIOUS
<1>1. TypeOK
  <2>1. /\ startedAt \in [Sessions -> NoTime..MaxTime] /\ lastActivityAt = startedAt
        /\ peak = startedAt /\ visitorToken \in [Sessions -> Sessions \cup {NoVisitor}]
    BY DEF Init, Sessions
  <2>2. jar \in [session : Sessions \cup {NoSession}, until : Int,
                 visitor : Sessions \cup {NoVisitor}]
    BY DEF Init, Sessions, EmptyJar
  <2>3. /\ now \in 0..MaxTime
        /\ kind \in [Calls -> {"none", "view", "form"}]
        /\ stage \in [Calls -> InFlight \cup {"idle", "done"}]
        /\ presented \in [Calls -> Sessions \cup {NoSession}]
        /\ visitor \in [Calls -> Sessions \cup {NoVisitor}]
        /\ target \in [Calls -> Sessions \cup {NoSession}]
    BY DEF Init, InFlight
  <2>4. at \in [Calls -> NoTime..MaxTime] /\ occurredAt \in [Sessions -> NoTime..MaxTime]
    BY DEF Init
  <2>5. /\ met \in [Calls -> SUBSET Calls] /\ disturbed \in BOOLEAN
        /\ renewed \subseteq Sessions
    BY DEF Init
  <2> QED
    BY <2>1, <2>2, <2>3, <2>4, <2>5 DEF TypeOK
<1>2. \A c \in Calls : /\ Timed(c) /\ StageFits(c) /\ OwnSession(c)
                       /\ FoundActive(c) /\ LaterWasMet(c) /\ CookieOrRival(c)
  BY
  DEF Init, Timed, StageFits, OwnSession, FoundActive, LaterWasMet, CookieOrRival,
         Sessions, InFlight, Answers
<1>3. /\ \A s \in Sessions : ActivityKnown(s)
      /\ CookieNamesRow /\ MeetMutually /\ VisitorsAgree /\ OneVisitAtATime
  BY
  DEF Init, ActivityKnown, CookieNamesRow, MeetMutually, VisitorsAgree, OneVisitAtATime,
         Accounted, Attended, Over, Orderly, Sessions, InFlight, EmptyJar
<1> QED
  BY <1>1, <1>2, <1>3 DEF VisitsInvariant

\* Requests, rows and cookies stay together in every interleaving, with a failure
\* at any point.
THEOREM VisitsSafe == Spec => []VisitsInvariant
<1>1. VisitsInvariant /\ [Next]_vars => VisitsInvariant'
  <2> SUFFICES ASSUME VisitsInvariant, [Next]_vars
               PROVE  VisitsInvariant'
    OBVIOUS
  <2> QED
    BY TypeKept, TimedKept, FitsKept, OwnKept, FoundKept, ActivityKept, CookieKept,
        MeetKept, LaterKept, AgreeKept, SplitKept
    DEF VisitsInvariant
<1> QED
  BY InitialState, <1>1, PTL DEF Spec

\* Every variable of Visits keeps its type.
THEOREM TypeCorrect == Spec => []TypeOK
<1>1. VisitsInvariant => TypeOK
  BY DEF VisitsInvariant
<1> QED
  BY VisitsSafe, <1>1, PTL

\* Cookies and answers name the visitor that the row of the session names,
\* unless two page views of the session overlapped and worked with visitors of
\* their own; the two that differ are then theirs.
THEOREM VisitorsSafe == Spec => []VisitorsAgree
<1>1. VisitsInvariant => VisitorsAgree
  BY DEF VisitsInvariant
<1> QED
  BY VisitsSafe, <1>1, PTL

\* An activity that prolongs a visit comes at most its duration after an earlier
\* one.
THEOREM NoWaking == Spec => NoVisitWakesUp
<1>1. ASSUME VisitsInvariant, [Next]_vars
      PROVE  [\A s \in Sessions :
          (startedAt[s] # NoTime /\ peak'[s] > peak[s]) => peak'[s] - peak[s] <= Duration]_vars
  <2> SUFFICES ASSUME Next, NEW s \in Sessions, startedAt[s] # NoTime,
      peak'[s] > peak[s]
               PROVE  peak'[s] - peak[s] <= Duration
    BY <1>1
  <2>1. ASSUME NEW c \in Calls, Update(c) \/ Record(c)
        PROVE  peak'[s] - peak[s] <= Duration
    BY <1>1, <2>1
    DEF VisitsInvariant, TypeOK, FoundActive, StageFits, Sessions, Update, Record,
        Goto, Touch
  <2>2. ASSUME NEW c \in Calls, Create(c)
        PROVE  peak'[s] - peak[s] <= Duration
    BY <1>1, <2>2 DEF VisitsInvariant, TypeOK, OwnSession, Create, Goto, Touch
  <2>3. CASE peak' = peak
    BY <1>1, <2>3 DEF VisitsInvariant, TypeOK
  <2> QED
    BY <2>1, <2>2, <2>3
    DEF Next, historyVars, Send, Arrive, Find, FindNothing, Answer, Fails,
        ClearCookies, Tick
<1> QED
  BY VisitsSafe, <1>1, PTL DEF Spec, NoVisitWakesUp

\* The activity of a visit is set back only by a request that overlapped with
\* the later one.
THEOREM GoingBack == Spec => ActivityGoesBackOnlyInRaces
<1>1. ASSUME VisitsInvariant, [Next]_vars
      PROVE  [\A s \in Sessions : lastActivityAt'[s] < lastActivityAt[s] =>
          \E c \in Calls : \E d \in met[c] :
             /\ stage[c] \in {"update",
                 "record"} /\ stage'[c] = "answer" /\ target[c] = s
             /\ target[d] = s /\ at[d] > at[c]]_vars
  <2> SUFFICES ASSUME Next, NEW s \in Sessions, lastActivityAt'[s] < lastActivityAt[s]
               PROVE  \E c \in Calls : \E d \in met[c] :
                         /\ stage[c] \in {"update", "record"} /\ stage'[c] = "answer"
                         /\ target[c] = s /\ target[d] = s /\ at[d] > at[c]
    BY <1>1
  <2>1. ASSUME NEW c \in Calls, Update(c) \/ Record(c)
        PROVE  \E d \in met[c] :
                  /\ stage[c] \in {"update", "record"} /\ stage'[c] = "answer"
                  /\ target[c] = s /\ target[d] = s /\ at[d] > at[c]
    <3>1. stage[c] \in {"update", "record"} /\ stage'[c] = "answer"
      BY <1>1, <2>1 DEF VisitsInvariant, TypeOK, Update, Record, Goto
    <3>2. target[c] = s /\ lastActivityAt[s] > at[c]
      BY <1>1, <2>1 DEF VisitsInvariant, TypeOK, Sessions, Update, Record, Goto, Touch
    <3> QED
      BY <1>1, <3>1, <3>2 DEF VisitsInvariant, LaterWasMet, Answers
  <2>2. ASSUME NEW c \in Calls, Create(c)
        PROVE  FALSE
    BY <1>1, <2>2
    DEF VisitsInvariant, TypeOK, OwnSession, ActivityKnown, Timed, Answers, Sessions,
        Create, Goto, Touch
  <2>3. CASE lastActivityAt' = lastActivityAt
    BY <1>1, <2>3 DEF VisitsInvariant, TypeOK
  <2> QED
    BY <2>1, <2>2, <2>3
    DEF Next, tableVars, Send, Arrive, Find, FindNothing, Answer, Fails, ClearCookies,
        Tick
<1> QED
  BY VisitsSafe, <1>1, PTL DEF Spec, ActivityGoesBackOnlyInRaces

\* A page view of a visitor who takes one step at a time opens a visit only
\* when the others are over or were prolonged by the form.
THEOREM NoSplit == Spec => VisitsSplitOnlyByForm
<1>1. ASSUME VisitsInvariant, [Next]_vars
      PROVE  [\A s, t \in Sessions :
          (/\ Orderly
           /\ startedAt[s] # NoTime
           /\ startedAt[t] = NoTime /\ startedAt'[t] # NoTime)
          => startedAt'[t] >= lastActivityAt[s] + Duration \/ s \in renewed]_vars
  <2> SUFFICES ASSUME Next, NEW s \in Sessions, NEW t \in Sessions, Orderly,
                      startedAt[s] # NoTime, startedAt[t] = NoTime,
                          startedAt'[t] # NoTime,
                      s \notin renewed
               PROVE  startedAt'[t] >= lastActivityAt[s] + Duration
    BY <1>1
  <2>1. ASSUME NEW c \in Calls, Create(c)
        PROVE  startedAt'[t] >= lastActivityAt[s] + Duration
    <3>1. Over(s, at[c])
      BY <1>1, <2>1 DEF VisitsInvariant, OneVisitAtATime, Attended, Create, Goto
    <3>2. t = c /\ startedAt'[t] = at[c]
      BY <1>1, <2>1 DEF VisitsInvariant, TypeOK, Create, Sessions
    <3> QED
      BY <3>1, <3>2 DEF Over
  <2>2. CASE startedAt' = startedAt
    BY <2>2
  <2> QED
    BY <2>1, <2>2
    DEF Next, tableVars, Update, Record, Send, Arrive, Find, FindNothing, Answer,
        Fails, ClearCookies, Tick
<1> QED
  BY VisitsSafe, <1>1, PTL DEF Spec, VisitsSplitOnlyByForm

-----------------------------------------------------------------------------
(* The summary.  MapThenSumSet is a fold over a set, which the provers see *)
(* as a recursive function chosen by CHOOSE: that there is one is shown by *)
(* naming it, and that there is no other by the smallest set of days where *)
(* two of them would differ.                                               *)

\* The moments that one of the two tables holds.
Moments == [Sessions -> NoTime..MaxTime]
Rows(when) == {s \in Sessions : when[s] # NoTime}

\* Those whose days a set S of midnights labels, in the period.
Labelled(S, when, p, zone) ==
    {s \in Sessions : /\ when[s] # NoTime /\ Within(when[s], p)
                      /\ \E d \in S : Day(when[s]) = Label(d, zone)}

\* The rule that the sum over the days follows.
AddsDays(it, when, p, zone) ==
    it = [S \in SUBSET (p.first..p.last) |->
            IF S = {} THEN 0
            ELSE LET d == CHOOSE d \in S : TRUE
                 IN CountOn(d, when, p, zone) + it[S \ {d}]]

\* Total is a recursive function of the sets of days, as the fold makes it.
LEMMA TotalAddsDays ==
    ASSUME NEW when, NEW p, NEW zone
    PROVE  Total(when, p, zone)
             = (CHOOSE it : AddsDays(it, when, p, zone))[p.first..p.last]
BY Zenon DEF Total, AddsDays, MapThenSumSet, MapThenFoldSet

\* A session at UTC or ahead of it labels a midnight UTC with its own day,
\* and one behind UTC with the day before.
LEMMA LabelOfMidnight ==
    ASSUME NEW d \in Int, NEW zone \in Zones
    PROVE  Label(d, zone) = IF zone >= 0 THEN d ELSE d - 1
<1>1. zone \in (1 - TicksPerDay)..(TicksPerDay - 1)
  OBVIOUS
<1>2. CASE zone >= 0
  BY <1>1, <1>2, Z3 DEF Label
<1>3. CASE zone < 0
  BY <1>1, <1>3, Z3 DEF Label
<1> QED
  BY <1>1, <1>2, <1>3

\* The bounds in instants of the statements are those of the days.
LEMMA WithinIsOnADay ==
    ASSUME NEW t \in Nat, NEW p, p.first \in Int, p.last \in Int
    PROVE  Within(t, p) <=> Day(t) \in p.first..p.last
<1> DEFINE n == TicksPerDay
<1>1. /\ n * Day(t) <= t /\ t < n * (Day(t) + 1)
      /\ Day(t) \in Int /\ n \in Nat \ {0}
  BY Z3 DEF Day
<1> HIDE DEF n
<1>2. ASSUME NEW a \in Int, NEW b \in Int, a <= b
      PROVE  a * n <= n * b
  BY <1>1, <1>2, Z3
<1>3. \A a \in Int : n * a = a * n
  BY <1>1, Z3
<1>4. ASSUME Day(t) \in p.first..p.last
      PROVE  t >= p.first * n /\ t < (p.last + 1) * n
  <2>1. p.first * n <= n * Day(t)
    BY <1>1, <1>2, <1>4
  <2>2. (Day(t) + 1) * n <= n * (p.last + 1)
    BY <1>1, <1>2, <1>4
  <2>3. n * (Day(t) + 1) = (Day(t) + 1) * n /\ n * (p.last + 1) = (p.last + 1) * n
    BY <1>1, <1>3
  <2> QED
    BY <1>1, <2>1, <2>2, <2>3, Z3
<1>5. ASSUME t >= p.first * n, t < (p.last + 1) * n
      PROVE  Day(t) \in p.first..p.last
  <2>1. ASSUME Day(t) + 1 <= p.first
        PROVE  FALSE
    <3>1. (Day(t) + 1) * n <= n * p.first
      BY <1>1, <1>2, <2>1
    <3>2. n * (Day(t) + 1) = (Day(t) + 1) * n /\ n * p.first = p.first * n
      BY <1>1, <1>3
    <3> QED
      BY <1>1, <1>5, <3>1, <3>2, Z3
  <2>2. ASSUME p.last + 1 <= Day(t)
        PROVE  FALSE
    <3>1. (p.last + 1) * n <= n * Day(t)
      BY <1>1, <1>2, <2>2
    <3> QED
      BY <1>1, <1>5, <3>1, Z3
  <2> QED
    BY <1>1, <2>1, <2>2
<1> QED
  BY <1>4, <1>5 DEF Within, n

\* Among the subsets of a finite set there is always a smallest one.
LEMMA Minimal ==
    ASSUME NEW D, IsFiniteSet(D), NEW T, T \subseteq SUBSET D, T # {}
    PROVE  \E x \in T : \A y \in T : ~ (y \subseteq x /\ y # x)
<1>1. IsWellFoundedOn(StrictSubsetOrdering(D), SUBSET D)
  BY FS_StrictSubsetOrderingWellFounded, FS_FiniteSubsetsOfFinite
<1>2. PICK x \in T : \A y \in T : <<y, x>> \notin StrictSubsetOrdering(D)
  BY <1>1, WFMin
<1>3. ASSUME NEW y \in T, y \subseteq x, y # x
      PROVE  FALSE
  <2>1. x \in SUBSET D /\ y \in SUBSET D
    OBVIOUS
  <2>2. <<y, x>> \in StrictSubsetOrdering(D)
    BY <1>3, <2>1 DEF StrictSubsetOrdering
  <2> QED
    BY <1>2, <2>2
<1> QED
  BY <1>3

\* A midnight has the rows that the others have not.
LEMMA LabelledOneMore ==
    ASSUME NEW when \in Moments, IsFiniteSet(Rows(when)), NEW p, NEW zone \in Zones,
           NEW S \in SUBSET Int, NEW d \in S
    PROVE  Cardinality(Labelled(S, when, p, zone))
             = CountOn(d, when, p, zone) + Cardinality(Labelled(S \ {d}, when, p, zone))
<1> DEFINE A == Labelled({d}, when, p, zone)
           B == Labelled(S \ {d}, when, p, zone)
<1>1. A \in SUBSET Rows(when) /\ B \in SUBSET Rows(when)
  BY DEF Rows, Labelled
<1>2. IsFiniteSet(A) /\ IsFiniteSet(B)
  BY <1>1, FS_Subset
<1>3. Labelled(S, when, p, zone) = A \cup B
  BY DEF Labelled
<1>4. A \cap B = {}
  <2>1. ASSUME NEW e \in S \ {d}
        PROVE  Label(e, zone) # Label(d, zone)
    BY LabelOfMidnight
  <2> QED
    BY <2>1 DEF Labelled
<1>5. Cardinality(A \cap B) = 0
  BY <1>4, FS_EmptySet
<1>6. Cardinality(A) \in Nat /\ Cardinality(B) \in Nat
  BY <1>2, FS_CardinalityType
<1>7. Cardinality(A \cup B) = Cardinality(A) + Cardinality(B) - Cardinality(A \cap B)
  BY <1>2, FS_Union
<1>8. CountOn(d, when, p, zone) = Cardinality(A)
  BY DEF CountOn, Labelled
<1> QED
  BY <1>3, <1>5, <1>6, <1>7, <1>8

\* So the numbers of labelled rows follow the rule of the sum.
LEMMA LabelledAddsDays ==
    ASSUME NEW when \in Moments, IsFiniteSet(Rows(when)), NEW p, p.first \in Int,
           p.last \in Int, NEW zone \in Zones
    PROVE  AddsDays([S \in SUBSET (p.first..p.last) |->
                        Cardinality(Labelled(S, when, p, zone))], when, p, zone)
<1> DEFINE D == p.first..p.last
           F == [S \in SUBSET D |-> Cardinality(Labelled(S, when, p, zone))]
           G == [S \in SUBSET D |->
                    IF S = {} THEN 0
                    ELSE LET d == CHOOSE d \in S : TRUE
                         IN  CountOn(d, when, p, zone) + F[S \ {d}]]
<1>1. ASSUME NEW S \in SUBSET D
      PROVE  F[S] = G[S]
  <2>1. CASE S = {}
    <3>1. Labelled({}, when, p, zone) = {}
      BY DEF Labelled
    <3> QED
      BY <2>1, <3>1, FS_EmptySet
  <2>2. CASE S # {}
    <3> DEFINE d == CHOOSE d \in S : TRUE
    <3>1. d \in S /\ S \in SUBSET Int
      BY <2>2
    <3>2. F[S \ {d}] = Cardinality(Labelled(S \ {d}, when, p, zone))
      BY <3>1
    <3>3. G[S] = CountOn(d, when, p, zone) + F[S \ {d}]
      BY <2>2
    <3>4. Cardinality(Labelled(S, when, p, zone))
            = CountOn(d, when, p, zone) + Cardinality(Labelled(S \ {d}, when, p, zone))
      <4> HIDE DEF d, D, F, G
      <4> QED
        BY <3>1, LabelledOneMore
    <3> HIDE DEF d, G
    <3> QED
      BY <3>2, <3>3, <3>4
  <2> QED
    BY <2>1, <2>2
<1>2. F = G
  <2> HIDE DEF D
  <2> QED
    BY <1>1, Zenon
<1> QED
  BY <1>2 DEF AddsDays

\* And there is only one function that follows it: where two of them differ,
\* they differ first at a smallest set of days, whose rest they agree on.
LEMMA OneSum ==
    ASSUME NEW p, p.first \in Int, p.last \in Int, NEW when, NEW zone,
           NEW f, NEW g, AddsDays(f, when, p, zone), AddsDays(g, when, p, zone)
    PROVE  f[p.first..p.last] = g[p.first..p.last]
<1> DEFINE D == p.first..p.last
           T == {S \in SUBSET D : f[S] # g[S]}
<1>1. IsFiniteSet(D)
  BY FS_Interval
<1>2. T = {}
  <2> SUFFICES ASSUME T # {} PROVE FALSE
    OBVIOUS
  <2>1. T \subseteq SUBSET D
    OBVIOUS
  <2>2. PICK S \in T : \A R \in T : ~ (R \subseteq S /\ R # S)
    <3> HIDE DEF T, D
    <3> QED
      BY <1>1, <2>1, Minimal
  <2>3. S \in SUBSET D /\ f[S] # g[S]
    BY <2>2
  <2>4. CASE S = {}
    <3>1. f[S] = 0 /\ g[S] = 0
      BY <2>3, <2>4 DEF AddsDays
    <3> QED
      BY <2>3, <3>1
  <2>5. CASE S # {}
    <3> DEFINE d == CHOOSE d \in S : TRUE
    <3>1. d \in S
      BY <2>5
    <3>2. S \ {d} \in SUBSET D /\ S \ {d} \subseteq S /\ S \ {d} # S
      BY <2>3, <3>1
    <3>3. f[S \ {d}] = g[S \ {d}]
      BY <2>2, <3>2
    <3>4. f[S] = CountOn(d, when, p, zone) + f[S \ {d}]
      BY <2>3, <2>5 DEF AddsDays
    <3>5. g[S] = CountOn(d, when, p, zone) + g[S \ {d}]
      BY <2>3, <2>5 DEF AddsDays
    <3> QED
      BY <2>3, <3>3, <3>4, <3>5
  <2> QED
    BY <2>4, <2>5
<1> QED
  BY <1>2

\* The fold is the number of rows that some midnight of the period labels.
LEMMA TotalCounts ==
    ASSUME NEW when \in Moments, IsFiniteSet(Rows(when)), NEW p, p.first \in Int,
           p.last \in Int, NEW zone \in Zones
    PROVE  Total(when, p, zone) = Cardinality(Labelled(p.first..p.last, when, p, zone))
<1> DEFINE D == p.first..p.last
           F == [S \in SUBSET D |-> Cardinality(Labelled(S, when, p, zone))]
           it == CHOOSE it : AddsDays(it, when, p, zone)
<1>1. AddsDays(F, when, p, zone)
  BY LabelledAddsDays
<1>2. AddsDays(it, when, p, zone)
  <2> HIDE DEF F
  <2> QED
    BY <1>1
<1>3. it[D] = F[D]
  <2> HIDE DEF F, it
  <2> QED
    BY <1>1, <1>2, OneSum
<1>4. F[D] = Cardinality(Labelled(D, when, p, zone))
  OBVIOUS
<1>5. Total(when, p, zone) = it[D]
  BY TotalAddsDays
<1> QED
  BY <1>3, <1>4, <1>5

\* What the days of a summary come to: the rows of the period, or of all but
\* its last day.
LastCounted(p, zone) == IF zone >= 0 THEN p.last ELSE p.last - 1

ComesTo(p, when, zone) ==
    Total(when, p, zone) =
        Cardinality({s \in Sessions : /\ when[s] # NoTime
                                      /\ Day(when[s]) \in p.first..LastCounted(p, zone)})

\* And these are the rows of the days that the labels name: all of those of
\* the period, or all but those of its last day.
LEMMA TotalOfPeriod ==
    ASSUME NEW when \in Moments, IsFiniteSet(Rows(when)), NEW p, p.first \in Int,
           p.last \in Int, NEW zone \in Zones
    PROVE  ComesTo(p, when, zone)
<1> USE DEF LastCounted
<1> DEFINE D == p.first..p.last
           E == p.first..LastCounted(p, zone)
<1>1. ASSUME NEW s \in Sessions, when[s] # NoTime
      PROVE  s \in Labelled(D, when, p, zone) <=> Day(when[s]) \in E
  <2>1. when[s] \in Nat
    BY <1>1 DEF Moments
  <2>2. Within(when[s], p) <=> Day(when[s]) \in D
    BY <2>1, WithinIsOnADay
  <2>3. Day(when[s]) \in Int
    BY <2>1, Z3 DEF Day
  <2>4. CASE zone >= 0
    <3>1. \A d \in D : Label(d, zone) = d
      BY <2>4, LabelOfMidnight
    <3> QED
      BY <1>1, <2>2, <2>4, <3>1 DEF Labelled
  <2>5. CASE ~ (zone >= 0)
    <3>1. \A d \in D : Label(d, zone) = d - 1
      BY <2>5, LabelOfMidnight
    <3>2. ASSUME Day(when[s]) \in E
          PROVE  Day(when[s]) + 1 \in D /\ Day(when[s]) \in D
      BY <2>3, <2>5, <3>2
    <3>3. Day(when[s]) \in E => s \in Labelled(D, when, p, zone)
      <4> HIDE DEF D, E
      <4> SUFFICES ASSUME Day(when[s]) \in E
                   PROVE  s \in Labelled(D, when, p, zone)
        OBVIOUS
      <4>1. Label(Day(when[s]) + 1, zone) = Day(when[s])
        BY <2>3, <3>1, <3>2
      <4> QED
        BY <1>1, <2>2, <3>2, <4>1 DEF Labelled
    <3>4. ASSUME s \in Labelled(D, when, p, zone)
          PROVE  Day(when[s]) \in E
      <4>1. PICK d \in D : Day(when[s]) = Label(d, zone)
        BY <3>4 DEF Labelled
      <4>2. Day(when[s]) \in D
        BY <2>2, <3>4 DEF Labelled
      <4> QED
        BY <2>3, <2>5, <3>1, <4>1, <4>2
    <3> QED
      BY <3>3, <3>4
  <2> QED
    BY <2>4, <2>5
<1>2. Labelled(D, when, p, zone) = {s \in Sessions : when[s] # NoTime /\ Day(when[s]) \in E}
  <2> HIDE DEF D, E
  <2> QED
    BY <1>1 DEF Labelled
<1> QED
  BY <1>2, TotalCounts DEF ComesTo

\* However many calls there may be, those that came in made finitely many
\* rows.
RowsAreFinite == IsFiniteSet(Rows(startedAt)) /\ IsFiniteSet(Rows(occurredAt))

\* There is at most the session from before.
LEMMA FiniteAtFirst == Init => RowsAreFinite
<1> SUFFICES ASSUME Init PROVE RowsAreFinite
  OBVIOUS
<1>1. Rows(startedAt) \in SUBSET {Legacy} /\ Rows(occurredAt) \in SUBSET {Legacy}
  BY DEF Init, Rows, Sessions
<1>2. IsFiniteSet({Legacy})
  BY FS_Singleton
<1> QED
  BY <1>1, <1>2, FS_Subset DEF RowsAreFinite

\* A row more, or another moment in one, and they are still finitely many.
LEMMA OneMoreRow ==
    ASSUME NEW when \in Moments, IsFiniteSet(Rows(when)), NEW s, NEW t
    PROVE  IsFiniteSet(Rows([when EXCEPT ![s] = t]))
<1>1. Rows([when EXCEPT ![s] = t]) \in SUBSET (Rows(when) \cup {s})
  BY DEF Rows, Moments
<1>2. IsFiniteSet(Rows(when) \cup {s})
  BY FS_AddElement
<1> QED
  BY <1>1, <1>2, FS_Subset

\* A step makes at most one row in either table.
LEMMA FinitelyManyMore ==
    ASSUME TypeOK, RowsAreFinite, [Next]_vars
    PROVE  RowsAreFinite'
<1> USE DEF RowsAreFinite
<1>0. startedAt \in Moments /\ occurredAt \in Moments
  BY DEF TypeOK, Moments
<1>1. ASSUME NEW c \in Calls, Create(c)
      PROVE  RowsAreFinite'
  <2>1. startedAt' = [startedAt EXCEPT ![c] = at[c]] /\ occurredAt' = occurredAt
    BY <1>1 DEF Create
  <2>2. IsFiniteSet(Rows([startedAt EXCEPT ![c] = at[c]]))
    BY <1>0, OneMoreRow
  <2> QED
    BY <2>1, <2>2 DEF Rows
<1>2. ASSUME NEW c \in Calls, Record(c)
      PROVE  RowsAreFinite'
  <2> DEFINE s == target[c]
             t == IF occurredAt[s] = NoTime THEN at[c] ELSE occurredAt[s]
  <2>1. startedAt' = startedAt /\ occurredAt' = [occurredAt EXCEPT ![s] = t]
    BY <1>2 DEF Record
  <2>2. IsFiniteSet(Rows([occurredAt EXCEPT ![s] = t]))
    <3> HIDE DEF s, t
    <3> QED
      BY <1>0, OneMoreRow
  <2> QED
    BY <2>1, <2>2 DEF Rows
<1>3. CASE UNCHANGED <<startedAt, occurredAt>>
  BY <1>3 DEF Rows
<1>4. ASSUME NEW c \in Calls,
             \/ \E k \in {"view", "form"} : Send(c, k)
             \/ Arrive(c) \/ Find(c) \/ FindNothing(c)
             \/ Update(c) \/ Answer(c) \/ Fails(c)
      PROVE  UNCHANGED <<startedAt, occurredAt>>
  BY <1>4 DEF Send, Arrive, Find, FindNothing, Update, Answer, Fails, tableVars
<1>5. ASSUME ClearCookies \/ Tick \/ UNCHANGED vars
      PROVE  UNCHANGED <<startedAt, occurredAt>>
  BY <1>5 DEF ClearCookies, Tick, vars, tableVars
<1> QED
  BY <1>1, <1>2, <1>3, <1>4, <1>5 DEF Next

\* A period is made of days, whatever was asked for.
LEMMA PeriodOfDays ==
    ASSUME TypeOK, NEW from \in {{}} \cup {{d} : d \in 0..Day(MaxTime)},
           NEW to \in {{}} \cup {{d} : d \in 0..Day(MaxTime)}
    PROVE  Period(from, to).first \in Int /\ Period(from, to).last \in Int
<1>0. MaxTime \in Nat /\ now \in Nat /\ TicksPerDay \in Nat \ {0} /\ DefaultDays \in Int
  BY DEF TypeOK
<1>1. Day(now) \in Int /\ Day(MaxTime) \in Int
  BY <1>0, Z3 DEF Day
<1>2. from # {} => (CHOOSE d \in from : TRUE) \in Int
  BY <1>1
<1>3. to # {} => (CHOOSE d \in to : TRUE) \in Int
  BY <1>1
<1> QED
  BY <1>0, <1>1, <1>2, <1>3 DEF Period

\* That for every period one can ask for, over either table.
SummaryComesTo ==
    \A from, to \in {{}} \cup {{d} : d \in 0..Day(MaxTime)} :
        \A when \in {startedAt, occurredAt}, zone \in Zones :
            ComesTo(Period(from, to), when, zone)

\* The two tables and every period are of the kind that TotalOfPeriod wants.
LEMMA SumsAgree ==
    ASSUME TypeOK, RowsAreFinite
    PROVE  SummaryComesTo
<1> SUFFICES ASSUME NEW from \in {{}} \cup {{d} : d \in 0..Day(MaxTime)},
                    NEW to \in {{}} \cup {{d} : d \in 0..Day(MaxTime)},
                    NEW when \in {startedAt, occurredAt}, NEW zone \in Zones
             PROVE  ComesTo(Period(from, to), when, zone)
  BY DEF SummaryComesTo
<1>1. Period(from, to).first \in Int /\ Period(from, to).last \in Int
  BY PeriodOfDays
<1>2. when \in Moments /\ IsFiniteSet(Rows(when))
  BY DEF TypeOK, RowsAreFinite, Moments
<1> QED
  BY <1>1, <1>2, TotalOfPeriod

\* The days of a summary come to the visits and interactions of its period at
\* UTC and ahead of it, and to those of all but its last day behind UTC, for
\* every length of a day, every set of calls and every offset.
THEOREM SummaryTotals == Spec => []SummaryComesTo
<1>1. Init => RowsAreFinite
  BY FiniteAtFirst
<1>2. VisitsInvariant /\ RowsAreFinite /\ [Next]_vars => RowsAreFinite'
  BY FinitelyManyMore DEF VisitsInvariant
<1>3. VisitsInvariant /\ RowsAreFinite => SummaryComesTo
  BY SumsAgree DEF VisitsInvariant
<1> QED
  BY VisitsSafe, <1>1, <1>2, <1>3, PTL DEF Spec

\* So a session of the database that is not behind UTC loses no visit and no
\* interaction of the period.
THEOREM SummarySafe == Spec => []SummaryAddsUp
<1>1. ASSUME SummaryComesTo
      PROVE  SummaryAddsUp
  <2> SUFFICES ASSUME NEW from \in {{}} \cup {{d} : d \in 0..Day(MaxTime)},
                      NEW to \in {{}} \cup {{d} : d \in 0..Day(MaxTime)},
                      NEW when \in {startedAt, occurredAt}, NEW zone \in Zones,
                      zone >= 0
               PROVE  LET p == Period(from, to)
                      IN  Total(when, p, zone) =
                            Cardinality({s \in Sessions :
                                when[s] # NoTime /\ Day(when[s]) \in p.first..p.last})
    BY DEF SummaryAddsUp
  <2> DEFINE p == Period(from, to)
  <2>1. ComesTo(p, when, zone)
    BY <1>1 DEF SummaryComesTo
  <2>2. LastCounted(p, zone) = p.last
    BY DEF LastCounted
  <2> QED
    BY <2>1, <2>2 DEF ComesTo
<1> QED
  BY SummaryTotals, <1>1, PTL

=============================================================================
