------------------------ MODULE ServerCachesProofs ------------------------
(***************************************************************************)
(* What TLAPS proves of ServerCaches, for every set of callers and cells   *)
(* and any number of changes of the world.                                 *)
(***************************************************************************)
EXTENDS ServerCaches, TLAPS

USE CachesAssumption

-----------------------------------------------------------------------------
(* Every action keeps each conjunct of the invariant.                      *)

LEMMA TakeFreshHolds ==
    ASSUME CachesInvariant, NEW c \in Callers, TakeFresh(c)
    PROVE  CachesInvariant'
<1>1. TypeOK'
  BY DEF CachesInvariant, TypeOK, TakeFresh, Comes
<1>2. SingleFlight'
  BY <1>1 DEF CachesInvariant, SingleFlight, TakeFresh
<1>3. AnswersOutliveNoExpiry'
  BY <1>1 DEF CachesInvariant, TypeOK, AnswersOutliveNoExpiry, Orderly, TakeFresh,
         Comes
<1>4. (\A k \in Cells : cell[k] <= world[k] /\ expiredAt[k] <= world[k])'
  BY <1>1 DEF CachesInvariant, TakeFresh
<1>5. (\A d \in Callers : stage[d] = "collected" => observed[d] <= world[asked[d]])'
  BY <1>1 DEF CachesInvariant, TakeFresh, Comes
<1>6. (\A k \in fresh \cap Orderly : cell[k] >= expiredAt[k])'
  BY <1>1 DEF CachesInvariant, Orderly, TakeFresh
<1>7. (\A d \in Callers : stage[d] # "away" => floor[d] <= expiredAt[asked[d]])'
  BY <1>1 DEF CachesInvariant, TypeOK, TakeFresh, Comes
<1>8. (\A d \in Callers :
          stage[d] \in {"away", "collecting", "collected", "joined"} => answer[d] = 0)'
  BY <1>1 DEF CachesInvariant, TypeOK, TakeFresh, Comes
<1>9. (\A d \in Callers : CollectsAlone(d))'
  BY <1>1 DEF CachesInvariant, Orderly, CollectsAlone, Collects, TakeFresh, Comes
<1>10. (\A d \in Callers : WaitsForPending(d))'
  BY <1>1 DEF CachesInvariant, WaitsForPending, Collects, TakeFresh, Comes
<1>11. (\A k \in Cells : pending[k] # Nobody =>
           /\ k \in Shared /\ asked[pending[k]] = k
           /\ stage[pending[k]] \in {"collecting", "collected", "settled"})'
  BY <1>1 DEF CachesInvariant, TakeFresh, Comes
<1> QED
  BY <1>1, <1>2, <1>3, <1>4, <1>5, <1>6, <1>7, <1>8, <1>9, <1>10,
     <1>11 DEF CachesInvariant

LEMMA JoinHolds ==
    ASSUME CachesInvariant, NEW c \in Callers, Join(c)
    PROVE  CachesInvariant'
<1>1. TypeOK'
  BY DEF CachesInvariant, TypeOK, Join, Comes
<1>2. SingleFlight'
  BY <1>1 DEF CachesInvariant, SingleFlight, Join
<1>3. AnswersOutliveNoExpiry'
  BY <1>1 DEF CachesInvariant, TypeOK, AnswersOutliveNoExpiry, Orderly,
         WaitsForPending, Join, Comes
<1>4. (\A k \in Cells : cell[k] <= world[k] /\ expiredAt[k] <= world[k])'
  BY <1>1 DEF CachesInvariant, Join
<1>5. (\A d \in Callers : stage[d] = "collected" => observed[d] <= world[asked[d]])'
  BY <1>1 DEF CachesInvariant, Join, Comes
<1>6. (\A k \in fresh \cap Orderly : cell[k] >= expiredAt[k])'
  BY <1>1 DEF CachesInvariant, Orderly, Join
<1>7. (\A d \in Callers : stage[d] # "away" => floor[d] <= expiredAt[asked[d]])'
  BY <1>1 DEF CachesInvariant, TypeOK, Join, Comes
<1>8. (\A d \in Callers :
          stage[d] \in {"away", "collecting", "collected", "joined"} => answer[d] = 0)'
  BY <1>1 DEF CachesInvariant, TypeOK, Join, Comes
<1>9. (\A d \in Callers : CollectsAlone(d))'
  BY <1>1 DEF CachesInvariant, Orderly, CollectsAlone, Collects, Join, Comes
<1>10. (\A d \in Callers : WaitsForPending(d))'
  BY <1>1 DEF CachesInvariant, WaitsForPending, Collects, Join, Comes
<1>11. (\A k \in Cells : pending[k] # Nobody =>
           /\ k \in Shared /\ asked[pending[k]] = k
           /\ stage[pending[k]] \in {"collecting", "collected", "settled"})'
  BY <1>1 DEF CachesInvariant, Join, Comes
<1> QED
  BY <1>1, <1>2, <1>3, <1>4, <1>5, <1>6, <1>7, <1>8, <1>9, <1>10,
     <1>11 DEF CachesInvariant

LEMMA StartHolds ==
    ASSUME CachesInvariant, NEW c \in Callers, Start(c)
    PROVE  CachesInvariant'
<1>1. TypeOK'
  BY DEF CachesInvariant, TypeOK, Start, Begin, Comes
<1>2. SingleFlight'
  BY <1>1 DEF CachesInvariant, SingleFlight, WaitsForPending, Collects, Start, Begin
<1>3. AnswersOutliveNoExpiry'
  BY <1>1 DEF CachesInvariant, AnswersOutliveNoExpiry, Orderly, Start, Begin, Comes
<1>4. (\A k \in Cells : cell[k] <= world[k] /\ expiredAt[k] <= world[k])'
  BY <1>1 DEF CachesInvariant, Start, Begin
<1>5. (\A d \in Callers : stage[d] = "collected" => observed[d] <= world[asked[d]])'
  BY <1>1 DEF CachesInvariant, Start, Begin, Comes
<1>6. (\A k \in fresh \cap Orderly : cell[k] >= expiredAt[k])'
  BY <1>1 DEF CachesInvariant, Orderly, Start, Begin
<1>7. (\A d \in Callers : stage[d] # "away" => floor[d] <= expiredAt[asked[d]])'
  BY <1>1 DEF CachesInvariant, TypeOK, Start, Begin, Comes
<1>8. (\A d \in Callers :
          stage[d] \in {"away", "collecting", "collected", "joined"} => answer[d] = 0)'
  BY <1>1 DEF CachesInvariant, Start, Begin, Comes
<1>9. (\A d \in Callers : CollectsAlone(d))'
  BY <1>1 DEF CachesInvariant, Orderly, CollectsAlone, WaitsForPending, Collects,
         Start, Begin, Comes
<1>10. (\A d \in Callers : WaitsForPending(d))'
  BY <1>1 DEF CachesInvariant, TypeOK, WaitsForPending, Collects, Start, Begin,
         Comes
<1>11. (\A k \in Cells : pending[k] # Nobody =>
           /\ k \in Shared /\ asked[pending[k]] = k
           /\ stage[pending[k]] \in {"collecting", "collected", "settled"})'
  BY <1>1 DEF CachesInvariant, TypeOK, Start, Begin, Comes
<1> QED
  BY <1>1, <1>2, <1>3, <1>4, <1>5, <1>6, <1>7, <1>8, <1>9, <1>10,
     <1>11 DEF CachesInvariant

LEMMA RefuseHolds ==
    ASSUME CachesInvariant, NEW c \in Callers, Refuse(c)
    PROVE  CachesInvariant'
<1>1. TypeOK'
  BY DEF CachesInvariant, TypeOK, Refuse, Comes
<1>2. SingleFlight'
  BY <1>1 DEF CachesInvariant, SingleFlight, Refuse
<1>3. AnswersOutliveNoExpiry'
  BY <1>1 DEF CachesInvariant, AnswersOutliveNoExpiry, Orderly, Refuse, Comes
<1>4. (\A k \in Cells : cell[k] <= world[k] /\ expiredAt[k] <= world[k])'
  BY <1>1 DEF CachesInvariant, Refuse
<1>5. (\A d \in Callers : stage[d] = "collected" => observed[d] <= world[asked[d]])'
  BY <1>1 DEF CachesInvariant, Refuse, Comes
<1>6. (\A k \in fresh \cap Orderly : cell[k] >= expiredAt[k])'
  BY <1>1 DEF CachesInvariant, Orderly, Refuse
<1>7. (\A d \in Callers : stage[d] # "away" => floor[d] <= expiredAt[asked[d]])'
  BY <1>1 DEF CachesInvariant, TypeOK, Refuse, Comes
<1>8. (\A d \in Callers :
          stage[d] \in {"away", "collecting", "collected", "joined"} => answer[d] = 0)'
  BY <1>1 DEF CachesInvariant, Refuse, Comes
<1>9. (\A d \in Callers : CollectsAlone(d))'
  BY <1>1 DEF CachesInvariant, Orderly, CollectsAlone, Collects, Refuse, Comes
<1>10. (\A d \in Callers : WaitsForPending(d))'
  BY <1>1 DEF CachesInvariant, WaitsForPending, Collects, Refuse, Comes
<1>11. (\A k \in Cells : pending[k] # Nobody =>
           /\ k \in Shared /\ asked[pending[k]] = k
           /\ stage[pending[k]] \in {"collecting", "collected", "settled"})'
  BY <1>1 DEF CachesInvariant, Refuse, Comes
<1> QED
  BY <1>1, <1>2, <1>3, <1>4, <1>5, <1>6, <1>7, <1>8, <1>9, <1>10,
     <1>11 DEF CachesInvariant

LEMMA ObserveHolds ==
    ASSUME CachesInvariant, NEW c \in Callers, Observe(c)
    PROVE  CachesInvariant'
<1>1. TypeOK'
  BY DEF CachesInvariant, TypeOK, Observe
<1>2. SingleFlight'
  BY <1>1 DEF CachesInvariant, SingleFlight, Observe
<1>3. AnswersOutliveNoExpiry'
  BY <1>1 DEF CachesInvariant, AnswersOutliveNoExpiry, Orderly, Observe
<1>4. (\A k \in Cells : cell[k] <= world[k] /\ expiredAt[k] <= world[k])'
  BY <1>1 DEF CachesInvariant, Observe
<1>5. (\A d \in Callers : stage[d] = "collected" => observed[d] <= world[asked[d]])'
  BY <1>1 DEF CachesInvariant, TypeOK, Observe
<1>6. (\A k \in fresh \cap Orderly : cell[k] >= expiredAt[k])'
  BY <1>1 DEF CachesInvariant, Orderly, Observe
<1>7. (\A d \in Callers : stage[d] # "away" => floor[d] <= expiredAt[asked[d]])'
  BY <1>1 DEF CachesInvariant, Observe
<1>8. (\A d \in Callers :
          stage[d] \in {"away", "collecting", "collected", "joined"} => answer[d] = 0)'
  BY <1>1 DEF CachesInvariant, Observe
<1>9. (\A d \in Callers : CollectsAlone(d))'
  BY <1>1 DEF CachesInvariant, TypeOK, Orderly, CollectsAlone, Collects, Observe
<1>10. (\A d \in Callers : WaitsForPending(d))'
  BY <1>1 DEF CachesInvariant, WaitsForPending, Collects, Observe
<1>11. (\A k \in Cells : pending[k] # Nobody =>
           /\ k \in Shared /\ asked[pending[k]] = k
           /\ stage[pending[k]] \in {"collecting", "collected", "settled"})'
  BY <1>1 DEF CachesInvariant, Observe
<1> QED
  BY <1>1, <1>2, <1>3, <1>4, <1>5, <1>6, <1>7, <1>8, <1>9, <1>10,
     <1>11 DEF CachesInvariant

LEMMA StoreHolds ==
    ASSUME CachesInvariant, NEW c \in Callers, Store(c)
    PROVE  CachesInvariant'
<1>1. TypeOK'
  BY DEF CachesInvariant, TypeOK, Store, Tell
<1>2. SingleFlight'
  BY <1>1 DEF CachesInvariant, SingleFlight, Store, Tell
<1>3. AnswersOutliveNoExpiry'
  <2> SUFFICES ASSUME NEW d \in Callers, answer'[d] # 0, asked[d] \in Orderly
               PROVE  answer'[d] >= floor[d]
    BY DEF AnswersOutliveNoExpiry, Orderly, Store
  <2>1. CASE d = c \/ Waits(d, c)
    <3>1. observed[c] >= expiredAt[asked[c]] /\ floor[d] <= expiredAt[asked[d]] /\ asked[d] = asked[c]
      BY <2>1 DEF CachesInvariant, CollectsAlone, Collects, Store, Waits
    <3>2. answer'[d] = observed[c]
      BY <2>1 DEF Store, Tell
    <3> QED
      BY <3>1, <3>2 DEF CachesInvariant, TypeOK
  <2>2. CASE ~ (d = c \/ Waits(d, c))
    BY <2>2 DEF CachesInvariant, AnswersOutliveNoExpiry, Store, Tell
  <2> QED
    BY <2>1, <2>2
<1>4. (\A k \in Cells : cell[k] <= world[k] /\ expiredAt[k] <= world[k])'
  BY <1>1 DEF CachesInvariant, Store, Tell
<1>5. (\A d \in Callers : stage[d] = "collected" => observed[d] <= world[asked[d]])'
  BY <1>1 DEF CachesInvariant, Store, Tell
<1>6. (\A k \in fresh \cap Orderly : cell[k] >= expiredAt[k])'
  BY <1>1 DEF CachesInvariant, TypeOK, Orderly, CollectsAlone, Collects, Store, Tell
<1>7. (\A d \in Callers : stage[d] # "away" => floor[d] <= expiredAt[asked[d]])'
  BY <1>1 DEF CachesInvariant, Store, Tell, Waits
<1>8. (\A d \in Callers :
          stage[d] \in {"away", "collecting", "collected", "joined"} => answer[d] = 0)'
  BY <1>1 DEF CachesInvariant, Store, Tell
<1>9. (\A d \in Callers : CollectsAlone(d))'
  BY <1>1 DEF CachesInvariant, Orderly, CollectsAlone, Collects, Store, Tell
<1>10. (\A d \in Callers : WaitsForPending(d))'
  BY <1>1 DEF CachesInvariant, TypeOK, Orderly, CollectsAlone, WaitsForPending,
         Collects, Store, Tell, Waits
<1>11. (\A k \in Cells : pending[k] # Nobody =>
           /\ k \in Shared /\ asked[pending[k]] = k
           /\ stage[pending[k]] \in {"collecting", "collected", "settled"})'
  BY <1>1 DEF CachesInvariant, TypeOK, Store, Tell, Waits
<1> QED
  BY <1>1, <1>2, <1>3, <1>4, <1>5, <1>6, <1>7, <1>8, <1>9, <1>10,
     <1>11 DEF CachesInvariant

LEMMA FailHolds ==
    ASSUME CachesInvariant, NEW c \in Callers, Fail(c)
    PROVE  CachesInvariant'
<1>1. TypeOK'
  BY DEF CachesInvariant, TypeOK, Fail, Tell
<1>2. SingleFlight'
  BY <1>1 DEF CachesInvariant, SingleFlight, Fail, Tell
<1>3. AnswersOutliveNoExpiry'
  BY <1>1 DEF CachesInvariant, AnswersOutliveNoExpiry, Orderly, Fail, Tell
<1>4. (\A k \in Cells : cell[k] <= world[k] /\ expiredAt[k] <= world[k])'
  BY <1>1 DEF CachesInvariant, Fail, Tell
<1>5. (\A d \in Callers : stage[d] = "collected" => observed[d] <= world[asked[d]])'
  BY <1>1 DEF CachesInvariant, Fail, Tell
<1>6. (\A k \in fresh \cap Orderly : cell[k] >= expiredAt[k])'
  BY <1>1 DEF CachesInvariant, Orderly, Fail, Tell
<1>7. (\A d \in Callers : stage[d] # "away" => floor[d] <= expiredAt[asked[d]])'
  BY <1>1 DEF CachesInvariant, Fail, Tell, Waits
<1>8. (\A d \in Callers :
          stage[d] \in {"away", "collecting", "collected", "joined"} => answer[d] = 0)'
  BY <1>1 DEF CachesInvariant, Fail, Tell
<1>9. (\A d \in Callers : CollectsAlone(d))'
  BY <1>1 DEF CachesInvariant, Orderly, CollectsAlone, Collects, Fail, Tell
<1>10. (\A d \in Callers : WaitsForPending(d))'
  BY <1>1 DEF CachesInvariant, TypeOK, WaitsForPending, Collects, Fail, Tell, Waits
<1>11. (\A k \in Cells : pending[k] # Nobody =>
           /\ k \in Shared /\ asked[pending[k]] = k
           /\ stage[pending[k]] \in {"collecting", "collected", "settled"})'
  BY <1>1 DEF CachesInvariant, TypeOK, Fail, Tell, Waits
<1> QED
  BY <1>1, <1>2, <1>3, <1>4, <1>5, <1>6, <1>7, <1>8, <1>9, <1>10,
     <1>11 DEF CachesInvariant

LEMMA ClearHolds ==
    ASSUME CachesInvariant, NEW c \in Callers, Clear(c)
    PROVE  CachesInvariant'
<1>1. TypeOK'
  BY DEF CachesInvariant, TypeOK, Clear
<1>2. SingleFlight'
  BY <1>1 DEF CachesInvariant, SingleFlight, Clear
<1>3. AnswersOutliveNoExpiry'
  BY <1>1 DEF CachesInvariant, AnswersOutliveNoExpiry, Orderly, Clear
<1>4. (\A k \in Cells : cell[k] <= world[k] /\ expiredAt[k] <= world[k])'
  BY <1>1 DEF CachesInvariant, Clear
<1>5. (\A d \in Callers : stage[d] = "collected" => observed[d] <= world[asked[d]])'
  BY <1>1 DEF CachesInvariant, Clear
<1>6. (\A k \in fresh \cap Orderly : cell[k] >= expiredAt[k])'
  BY <1>1 DEF CachesInvariant, Orderly, Clear
<1>7. (\A d \in Callers : stage[d] # "away" => floor[d] <= expiredAt[asked[d]])'
  BY <1>1 DEF CachesInvariant, Clear
<1>8. (\A d \in Callers :
          stage[d] \in {"away", "collecting", "collected", "joined"} => answer[d] = 0)'
  BY <1>1 DEF CachesInvariant, Clear
<1>9. (\A d \in Callers : CollectsAlone(d))'
  BY <1>1 DEF CachesInvariant, Orderly, CollectsAlone, Collects, Clear
<1>10. (\A d \in Callers : WaitsForPending(d))'
  BY <1>1 DEF CachesInvariant, TypeOK, WaitsForPending, Collects, Clear
<1>11. (\A k \in Cells : pending[k] # Nobody =>
           /\ k \in Shared /\ asked[pending[k]] = k
           /\ stage[pending[k]] \in {"collecting", "collected", "settled"})'
  BY <1>1 DEF CachesInvariant, TypeOK, Clear
<1> QED
  BY <1>1, <1>2, <1>3, <1>4, <1>5, <1>6, <1>7, <1>8, <1>9, <1>10,
     <1>11 DEF CachesInvariant

LEMMA ChangeHolds ==
    ASSUME CachesInvariant, NEW k \in Cells, Change(k)
    PROVE  CachesInvariant'
<1>1. TypeOK'
  BY DEF CachesInvariant, TypeOK, Change, callVars
<1>2. SingleFlight'
  BY <1>1 DEF CachesInvariant, SingleFlight, Change
<1>3. AnswersOutliveNoExpiry'
  BY <1>1 DEF CachesInvariant, AnswersOutliveNoExpiry, Orderly, Change, callVars
<1>4. (\A j \in Cells : cell[j] <= world[j] /\ expiredAt[j] <= world[j])'
  BY <1>1 DEF CachesInvariant, TypeOK, Change
<1>5. (\A d \in Callers : stage[d] = "collected" => observed[d] <= world[asked[d]])'
  BY <1>1 DEF CachesInvariant, TypeOK, Change, callVars
<1>6. (\A j \in fresh \cap Orderly : cell[j] >= expiredAt[j])'
  BY <1>1 DEF CachesInvariant, Orderly, Change
<1>7. (\A d \in Callers : stage[d] # "away" => floor[d] <= expiredAt[asked[d]])'
  BY <1>1 DEF CachesInvariant, Change, callVars
<1>8. (\A d \in Callers :
          stage[d] \in {"away", "collecting", "collected", "joined"} => answer[d] = 0)'
  BY <1>1 DEF CachesInvariant, Change, callVars
<1>9. (\A d \in Callers : CollectsAlone(d))'
  BY <1>1 DEF CachesInvariant, Orderly, CollectsAlone, Collects, Change, callVars
<1>10. (\A d \in Callers : WaitsForPending(d))'
  BY <1>1 DEF CachesInvariant, WaitsForPending, Collects, Change, callVars
<1>11. (\A j \in Cells : pending[j] # Nobody =>
           /\ j \in Shared /\ asked[pending[j]] = j
           /\ stage[pending[j]] \in {"collecting", "collected", "settled"})'
  BY <1>1 DEF CachesInvariant, Change, callVars
<1> QED
  BY <1>1, <1>2, <1>3, <1>4, <1>5, <1>6, <1>7, <1>8, <1>9, <1>10,
     <1>11 DEF CachesInvariant

LEMMA ExpireHolds ==
    ASSUME CachesInvariant, NEW k \in Cells, Expire(k)
    PROVE  CachesInvariant'
<1>1. TypeOK'
  BY DEF CachesInvariant, TypeOK, Expire, callVars
<1>2. SingleFlight'
  BY <1>1 DEF CachesInvariant, SingleFlight, Expire
<1>3. AnswersOutliveNoExpiry'
  BY <1>1 DEF CachesInvariant, AnswersOutliveNoExpiry, Orderly, Expire, callVars
<1>4. (\A j \in Cells : cell[j] <= world[j] /\ expiredAt[j] <= world[j])'
  BY <1>1 DEF CachesInvariant, TypeOK, Expire
<1>5. (\A d \in Callers : stage[d] = "collected" => observed[d] <= world[asked[d]])'
  BY <1>1 DEF CachesInvariant, Expire, callVars
<1>6. (\A j \in fresh \cap Orderly : cell[j] >= expiredAt[j])'
  BY <1>1 DEF CachesInvariant, Orderly, Expire
<1>7. (\A d \in Callers : stage[d] # "away" => floor[d] <= expiredAt[asked[d]])'
  BY <1>1 DEF CachesInvariant, TypeOK, Expire, callVars
<1>8. (\A d \in Callers :
          stage[d] \in {"away", "collecting", "collected", "joined"} => answer[d] = 0)'
  BY <1>1 DEF CachesInvariant, Expire, callVars
<1>9. (\A d \in Callers : CollectsAlone(d))'
  BY <1>1 DEF CachesInvariant, Orderly, CollectsAlone, Collects, Expire, callVars
<1>10. (\A d \in Callers : WaitsForPending(d))'
  BY <1>1 DEF CachesInvariant, WaitsForPending, Collects, Expire, callVars
<1>11. (\A j \in Cells : pending[j] # Nobody =>
           /\ j \in Shared /\ asked[pending[j]] = j
           /\ stage[pending[j]] \in {"collecting", "collected", "settled"})'
  BY <1>1 DEF CachesInvariant, Expire, callVars
<1> QED
  BY <1>1, <1>2, <1>3, <1>4, <1>5, <1>6, <1>7, <1>8, <1>9, <1>10,
     <1>11 DEF CachesInvariant

-----------------------------------------------------------------------------
(* The theorems.                                                           *)

LEMMA InitHolds == Init => CachesInvariant
BY DEF Init, CachesInvariant, TypeOK, SingleFlight, AnswersOutliveNoExpiry, Orderly,
       CollectsAlone, WaitsForPending, Collects

LEMMA NextHolds == CachesInvariant /\ [Next]_vars => CachesInvariant'
<1> SUFFICES ASSUME CachesInvariant, [Next]_vars
             PROVE  CachesInvariant'
  OBVIOUS
<1>1. ASSUME NEW c \in Callers, TakeFresh(c) \/ Join(c) \/ Start(c) \/ Refuse(c)
      PROVE  CachesInvariant'
  BY <1>1, TakeFreshHolds, JoinHolds, StartHolds, RefuseHolds
<1>2. ASSUME NEW c \in Callers, Collect(c)
      PROVE  CachesInvariant'
  BY <1>2, ObserveHolds, StoreHolds, FailHolds, ClearHolds DEF Collect
<1>3. ASSUME NEW k \in Cells, Change(k) \/ Expire(k)
      PROVE  CachesInvariant'
  BY <1>3, ChangeHolds, ExpireHolds
<1>4. CASE UNCHANGED vars
  BY <1>4 DEF vars, callVars, CachesInvariant, TypeOK, SingleFlight, AnswersOutliveNoExpiry,
              Orderly, CollectsAlone, WaitsForPending, Collects
<1> QED
  BY <1>1, <1>2, <1>3, <1>4 DEF Next

\* The inductive invariant of the caches: pendingOverview of
\* ServerOverviewService is the one collection of the overview, and what a
\* collection finds is no older than what made it necessary.
THEOREM CachesSafe == Spec => []CachesInvariant
<1>1. Init => CachesInvariant
  BY InitHolds
<1>2. CachesInvariant /\ [Next]_vars => CachesInvariant'
  BY NextHolds
<1> QED
  BY <1>1, <1>2, PTL DEF Spec

\* The overview of the host is never collected twice at once, whoever asks
\* (the pendingOverview of getOverview).
THEOREM CollectedOnce == Spec => []SingleFlight
<1>1. CachesInvariant => SingleFlight
  BY DEF CachesInvariant
<1> QED
  BY <1>1, CachesSafe, PTL

\* No caller is told what had expired when he came (the expiresAt of the three
\* caches), overlapping collections of Docker's values and listings apart.
THEOREM AnswersAreFresh == Spec => []AnswersOutliveNoExpiry
<1>1. CachesInvariant => AnswersOutliveNoExpiry
  BY DEF CachesInvariant
<1> QED
  BY <1>1, CachesSafe, PTL

\* A stored value gives way to an older one only where collections overlap.
THEOREM NewsStay == Spec => NewsNeverGoesBack
<1>1. ASSUME CachesInvariant, CachesInvariant', [Next]_vars
      PROVE  [\A k \in Orderly : cell'[k] >= cell[k]]_vars
  <2>1. ASSUME NEW c \in Callers, Store(c)
        PROVE  \A k \in Orderly : cell'[k] >= cell[k]
    BY <1>1, <2>1 DEF CachesInvariant, TypeOK, CollectsAlone, Collects, Orderly, Store
  <2>2. CASE UNCHANGED cell
    BY <1>1, <2>2 DEF CachesInvariant, TypeOK, Orderly
  <2>3. CASE UNCHANGED vars
    BY <2>3
  <2> QED
    BY <1>1, <2>1, <2>2, <2>3
    DEF Next, Collect, TakeFresh, Join, Start, Begin, Refuse, Observe, Fail, Clear, Change, Expire
<1> QED
  BY <1>1, CachesSafe, PTL DEF Spec, NewsNeverGoesBack

=============================================================================
