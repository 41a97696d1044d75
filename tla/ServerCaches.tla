---------------------------- MODULE ServerCaches ----------------------------
(***************************************************************************)
(* What the server pages of the dashboard are told: the overview of the    *)
(* host (ServerOverviewService), those of Docker (DockerService.cached)    *)
(* and the listings of directories (DirectoryBrowserService), each kept    *)
(* for a few seconds.  Who finds nothing fresh starts a collection; of the *)
(* host's overview there is one at a time, and who comes meanwhile waits   *)
(* for it, while Docker's and the listings collect once for each caller.   *)
(*                                                                         *)
(* What is observed is a version: 1 at first, one more at each change.  A  *)
(* collection reads several sources; its version is that of the first      *)
(* read, the oldest.  0 stands for no version.                             *)
(***************************************************************************)
EXTENDS Naturals

CONSTANTS Callers,   \* requests; each comes once
          Cells,     \* the cached values: one overview, and Docker's and the listings
          Shared,    \* those collected once for all callers: the overview
          Nobody,
          MaxWorld   \* bound: the changes that are followed

ASSUME CachesAssumption == Shared \subseteq Cells /\ Nobody \notin Callers /\ MaxWorld \in Nat

VARIABLES
    world,      \* what a collection would find now
    cell,       \* cachedOverview.value, or the entry of the map
    fresh,      \* cells whose expiresAt is still to come
    pending,    \* pendingOverview: who started it
    stage, asked,
    observed,   \* what the collection of the caller has read
    answer,     \* 0 for an error
    \* History.
    expiredAt,  \* the version of the world when the cell expired last
    floor,      \* the same when the caller came
    overlapped  \* cells of which two collections have been at work at once

callVars == <<stage, asked, answer, floor>>
vars == <<world, cell, fresh, pending, observed, callVars, expiredAt, overlapped>>

Init == /\ world = [k \in Cells |-> 1]
        /\ cell = [k \in Cells |-> 0]
        /\ fresh = {}
        /\ pending = [k \in Cells |-> Nobody]
        /\ stage = [c \in Callers |-> "away"]
        /\ asked \in [Callers -> Cells]
        /\ observed = [c \in Callers |-> 0]
        /\ answer = [c \in Callers |-> 0]
        /\ expiredAt = [k \in Cells |-> 0]
        /\ floor = [c \in Callers |-> 0]
        /\ overlapped = {}

-----------------------------------------------------------------------------
(* A caller comes.  Nothing is awaited between its look at the cell and    *)
(* the start of a collection.                                              *)

Collects(c, k) == asked[c] = k /\ stage[c] \in {"collecting", "collected"}

Comes(c, to) == /\ stage[c] = "away"
                /\ stage' = [stage EXCEPT ![c] = to]
                /\ floor' = [floor EXCEPT ![c] = expiredAt[asked[c]]]

\* Mutant: the expiry is not looked at.
TakeStored(c) ==
    /\ Comes(c, "done")
    /\ cell[asked[c]] # 0
    /\ answer' = [answer EXCEPT ![c] = cell[asked[c]]]
    /\ UNCHANGED <<world, cell, fresh, pending, asked, observed, expiredAt, overlapped>>

TakeFresh(c) ==
    /\ Comes(c, "done")
    /\ asked[c] \in fresh
    /\ answer' = [answer EXCEPT ![c] = cell[asked[c]]]
    /\ UNCHANGED <<world, cell, fresh, pending, asked, observed, expiredAt, overlapped>>

\* pendingOverview is returned as it is: it may have settled already, when its
\* finally has not run yet.
Join(c) ==
    LET p == pending[asked[c]] IN
    /\ asked[c] \in Shared \ fresh
    /\ p # Nobody
    /\ Comes(c, IF stage[p] = "settled" THEN "done" ELSE "joined")
    /\ answer' = IF stage[p] = "settled" THEN [answer EXCEPT ![c] = answer[p]] ELSE answer
    /\ UNCHANGED <<world, cell, fresh, pending, asked, observed, expiredAt, overlapped>>

Begin(c) ==
    LET k == asked[c] IN
    /\ Comes(c, "collecting")
    /\ k \notin fresh
    /\ pending' = IF k \in Shared THEN [pending EXCEPT ![k] = c] ELSE pending
    /\ overlapped' = IF \E d \in Callers : Collects(d, k) THEN overlapped \cup {k}
                                                          ELSE overlapped
    /\ UNCHANGED <<world, cell, fresh, asked, observed, answer, expiredAt>>

\* Mutant: pendingOverview is not looked at.
StartAlways(c) == Begin(c)

Start(c) == (asked[c] \in Shared => pending[asked[c]] = Nobody) /\ Begin(c)

\* A path that is not one, or no directories configured.
Refuse(c) ==
    /\ asked[c] \notin Shared
    /\ Comes(c, "done")
    /\ UNCHANGED <<world, cell, fresh, pending, asked, observed, answer, expiredAt, overlapped>>

-----------------------------------------------------------------------------
(* A collection.                                                           *)

Observe(c) ==
    /\ stage[c] = "collecting"
    /\ stage' = [stage EXCEPT ![c] = "collected"]
    /\ observed' = [observed EXCEPT ![c] = world[asked[c]]]
    /\ UNCHANGED <<world, cell, fresh, pending, asked, answer, expiredAt, floor, overlapped>>

\* The promise of caller c settles, and with it all that wait for the same.
Waits(d, c) == stage[d] = "joined" /\ asked[d] = asked[c] /\ pending[asked[c]] = c

Tell(c, v) ==
    /\ answer' = [d \in Callers |-> IF d = c \/ Waits(d, c) THEN v ELSE answer[d]]
    /\ stage' = [d \in Callers |->
                    IF d = c THEN IF asked[c] \in Shared THEN "settled" ELSE "done"
                    ELSE IF Waits(d, c) THEN "done" ELSE stage[d]]

Store(c) ==
    /\ stage[c] = "collected"
    /\ cell' = [cell EXCEPT ![asked[c]] = observed[c]]
    /\ fresh' = fresh \cup {asked[c]}
    /\ Tell(c, observed[c])
    /\ UNCHANGED <<world, pending, asked, observed, expiredAt, floor, overlapped>>

\* Mutant: a request that fails rejects nothing.
FailUnheard(c) ==
    /\ stage[c] \in {"collecting", "collected"}
    /\ stage' = [stage EXCEPT ![c] = "unanswered"]
    /\ UNCHANGED <<world, cell, fresh, pending, asked, observed, answer, expiredAt, floor,
                   overlapped>>

\* A file cannot be read, Docker refuses, is silent for 5 s, sends too much or
\* what is not JSON, a directory is missing.
Fail(c) ==
    /\ stage[c] \in {"collecting", "collected"}
    /\ Tell(c, 0)
    /\ UNCHANGED <<world, cell, fresh, pending, asked, observed, expiredAt, floor, overlapped>>

\* Mutant: pendingOverview is cleared in then, not in finally.
ClearOnSuccess(c) ==
    /\ stage[c] = "settled" /\ answer[c] # 0
    /\ stage' = [stage EXCEPT ![c] = "done"]
    /\ pending' = [pending EXCEPT ![asked[c]] = Nobody]
    /\ UNCHANGED <<world, cell, fresh, asked, observed, answer, expiredAt, floor, overlapped>>

\* The finally of getOverview, a turn of the microtask queue later.
Clear(c) ==
    /\ stage[c] = "settled"
    /\ stage' = [stage EXCEPT ![c] = "done"]
    /\ pending' = [pending EXCEPT ![asked[c]] = Nobody]
    /\ UNCHANGED <<world, cell, fresh, asked, observed, answer, expiredAt, floor, overlapped>>

-----------------------------------------------------------------------------
(* Time passes.                                                            *)

Change(k) ==
    /\ world[k] < MaxWorld
    /\ world' = [world EXCEPT ![k] = @ + 1]
    /\ UNCHANGED <<cell, fresh, pending, observed, callVars, expiredAt, overlapped>>

\* Not between a promise and its finally: microtasks run before any timer.
Expire(k) ==
    /\ k \in fresh
    /\ \A c \in Callers : asked[c] = k => stage[c] # "settled"
    /\ fresh' = fresh \ {k}
    /\ expiredAt' = [expiredAt EXCEPT ![k] = world[k]]
    /\ UNCHANGED <<world, cell, pending, observed, callVars, overlapped>>

Collect(c) == Observe(c) \/ Store(c) \/ Fail(c) \/ Clear(c)

Next == \/ \E c \in Callers : \/ TakeFresh(c) \/ Join(c) \/ Start(c) \/ Refuse(c)
                              \/ Collect(c)
        \/ \E k \in Cells : Change(k) \/ Expire(k)

Spec == Init /\ [][Next]_vars

\* Every read of a collection ends: df is killed after 3 s, and a request to
\* Docker ends with silence of 5 s or with 5 MiB.
FairSpec == Spec /\ \A c \in Callers : WF_vars(Collect(c))

-----------------------------------------------------------------------------
(* Properties.                                                             *)

TypeOK ==
    /\ world \in [Cells -> Nat] /\ cell \in [Cells -> Nat] /\ expiredAt \in [Cells -> Nat]
    /\ fresh \subseteq Cells /\ overlapped \subseteq Cells
    /\ pending \in [Cells -> Callers \cup {Nobody}]
    /\ stage \in [Callers -> {"away", "collecting", "collected", "joined", "settled", "done"}]
    /\ asked \in [Callers -> Cells]
    /\ observed \in [Callers -> Nat] /\ answer \in [Callers -> Nat] /\ floor \in [Callers -> Nat]

\* However many ask for the overview of the host at once, it is collected once
\* (pendingOverview).
SingleFlight == overlapped \cap Shared = {}

\* Cells of which each collection has had its turn alone.
Orderly == Shared \cup (Cells \ overlapped)

\* A stored value is replaced by an older one only where two collections have
\* been at work at once, as they may for Docker and the listings: the slower
\* one stores last.
NewsNeverGoesBack == [][\A k \in Orderly : cell'[k] >= cell[k]]_vars

\* Nobody is told what had expired when he came: an answer is at least as new
\* as the world was when the cell expired last, again but for overlaps.
AnswersOutliveNoExpiry ==
    \A c \in Callers : (answer[c] # 0 /\ asked[c] \in Orderly) => answer[c] >= floor[c]

\* The collection of a caller, where it is not one of many.
CollectsAlone(c) ==
    LET k == asked[c] IN
    Collects(c, k) /\ k \in Orderly =>
       /\ k \notin fresh
       /\ \A d \in Callers : Collects(d, k) => d = c
       /\ stage[c] = "collected" =>
             observed[c] >= cell[k] /\ observed[c] >= expiredAt[k]

\* The caller of a shared cell and pendingOverview.
WaitsForPending(c) ==
    LET k == asked[c] IN
    /\ k \in Shared /\ stage[c] \in {"collecting", "collected", "settled"} => pending[k] = c
    /\ stage[c] = "settled" => k \in Shared /\ (answer[c] = 0 \/ answer[c] >= expiredAt[k])
    /\ stage[c] = "joined" => /\ k \in Shared /\ pending[k] # Nobody
                              /\ Collects(pending[k], k)

\* What the three rest on: pendingOverview is the one collection of a shared
\* cell, which is not fresh meanwhile, and what a collection finds is no older
\* than what is stored and than the expiry that made it necessary.
CachesInvariant ==
    /\ TypeOK
    /\ SingleFlight
    /\ AnswersOutliveNoExpiry
    /\ \A k \in Cells : cell[k] <= world[k] /\ expiredAt[k] <= world[k]
    /\ \A c \in Callers : stage[c] = "collected" => observed[c] <= world[asked[c]]
    /\ \A k \in fresh \cap Orderly : cell[k] >= expiredAt[k]
    /\ \A c \in Callers : stage[c] # "away" => floor[c] <= expiredAt[asked[c]]
    /\ \A c \in Callers : stage[c] \in {"away", "collecting", "collected", "joined"} => answer[c] = 0
    /\ \A c \in Callers : CollectsAlone(c) /\ WaitsForPending(c)
    /\ \A k \in Cells : pending[k] # Nobody =>
          /\ k \in Shared /\ asked[pending[k]] = k
          /\ stage[pending[k]] \in {"collecting", "collected", "settled"}

\* pendingOverview is cleared in the end, also after a failure: one failed
\* collection does not fail the callers to come.
PendingClears == \A k \in Cells : (pending[k] # Nobody) ~> (pending[k] = Nobody)

\* Who waits, for the own collection or that of another, is answered.
EveryCallerAnswered == \A c \in Callers : (stage[c] # "away") ~> (stage[c] = "done")
=============================================================================
