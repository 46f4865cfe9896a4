--------------------------- MODULE ProviderProofs ----------------------------
(***************************************************************************)
(* Proofs about Provider, for every number of ids, requests and sessions   *)
(* and every bound.                                                        *)
(***************************************************************************)
EXTENDS Provider, TLAPS

Stages == {"idle", "gc", "load", "birth", "publish", "handler", "shift",
           "destroySync", "all", "allSync"}

\* A request past its first step has an id, and one that works on a session
\* has a session.
RequestData ==
    /\ \A g \in Goroutine : pc[g] \in Stages \ {"idle", "all"} => arg[g] \in Sid
    /\ \A p \in Proc : pc[p] \in {"gc", "publish", "handler", "shift"} => cur[p] \in Obj

\* Only a session that was made has a timer, running, fired or in its goroutine.
TimerData ==
    \A o \in Obj : life[o].timer # "nil" \/ firing[o] > 0 => sidOf[o] \in Sid

\* While DestroyAll runs, what is still registered is still to be visited.
RangeData ==
    \A p \in Proc : pc[p] \in {"all", "allSync"} =>
        \A s \in Sid : sessions[s] # None => s \in todo

IInv == /\ TypeOK
        /\ MutualExclusion
        /\ RegistryConsistent
        /\ RequestData
        /\ TimerData
        /\ RangeData

------------------------------------------------------------------------------
\* The results of the LifeTime operations.

\* A date and no timer is a LifeTime.
LEMMA StoredType ==
    ASSUME NEW t \in Nat
    PROVE  Stored(t) \in LifeTimes /\ Stored(t).time = t /\ Stored(t).timer = "nil"
BY DEF Stored, LifeTimes, TimerState

\* newSession gives a session a timer that is running or none, due no earlier
\* than the date, which is the loaded one or lies Expires ahead.
LEMMA NewLifeFacts ==
    ASSUME NEW t \in Nat, TypeOK
    PROVE  /\ NewLife(t) \in LifeTimes
           /\ NewLife(t).timer \in {"nil", "armed"}
           /\ NewLife(t).timer = "armed" => NewLife(t).at >= NewLife(t).time
           /\ NewLife(t).time \in {t, IF Expires > 0 THEN now + Expires ELSE 0}
<1> USE ProviderAssumption
<1>1. now \in Nat
  BY DEF TypeOK
<1>2. CASE t # 0
  BY <1>1, <1>2 DEF NewLife, Revive, Stored, LifeTimes, TimerState
<1>3. CASE t = 0
  BY <1>1, <1>3 DEF NewLife, Begin, Stored, LifeTimes, TimerState
<1> QED BY <1>2, <1>3

\* Shift keeps the date, starts no timer where there was none, and makes a
\* timer due d from now.
LEMMA ShiftFacts ==
    ASSUME NEW lt \in LifeTimes, NEW d \in Nat \ {0}, NEW t \in Nat
    PROVE  /\ Shift(lt, d, t) \in LifeTimes
           /\ Shift(lt, d, t).time = lt.time
           /\ lt.timer = "nil" => Shift(lt, d, t) = lt
           /\ lt.timer # "nil" => /\ Shift(lt, d, t).timer = "armed"
                                  /\ Shift(lt, d, t).at = t + d
BY DEF Shift, LifeTimes, TimerState

------------------------------------------------------------------------------
\* The initial states satisfy the inductive invariant.
LEMMA InitInv == Init => IInv
<1> SUFFICES ASSUME Init PROVE IInv
  OBVIOUS
<1> USE ProviderAssumption DEF Init
<1>1. TypeOK
  BY StoredType DEF TypeOK, Goroutine, NoEntry
<1>2. MutualExclusion /\ RangeData
  BY DEF MutualExclusion, RangeData, InCritical, Goroutine
<1>3. RegistryConsistent /\ RequestData
  BY DEF RegistryConsistent, RequestData, Goroutine
<1>4. TimerData
  BY StoredType DEF TimerData
<1> QED BY <1>1, <1>2, <1>3, <1>4 DEF IInv

\* Every step keeps the inductive invariant.
LEMMA StepInv == IInv /\ [Next]_vars => IInv'
<1> SUFFICES ASSUME IInv, [Next]_vars PROVE IInv'
  OBVIOUS
<1> USE ProviderAssumption
<1>1. ASSUME NEW p \in Proc, NEW s \in Sid, StartNew(p, s) PROVE IInv'
  <2> USE <1>1
  <2>1. TypeOK'
    BY DEF IInv, StartNew, Call, TypeOK, Goroutine
  <2>2. MutualExclusion'
    BY DEF IInv, StartNew, Call, TypeOK, MutualExclusion, InCritical, Goroutine
  <2>3. RegistryConsistent'
    BY DEF IInv, StartNew, Call, TypeOK, RegistryConsistent, Registered,
           RequestData, Stages, Goroutine
  <2>4. RequestData'
    BY DEF IInv, StartNew, Call, TypeOK, RequestData, Stages, Goroutine
  <2>5. RangeData'
    BY DEF IInv, StartNew, Call, TypeOK, RangeData, MutualExclusion,
           InCritical, Goroutine
  <2>6. TimerData'
    BY DEF IInv, StartNew, Call, TimerData
  <2> QED BY <2>1, <2>2, <2>3, <2>4, <2>5, <2>6 DEF IInv
<1>2. ASSUME NEW p \in Proc, NEW s \in Sid, ReadFound(p, s) PROVE IInv'
  <2> USE <1>2
  <2>1. TypeOK'
    BY DEF IInv, ReadFound, Call, TypeOK, Goroutine
  <2>2. MutualExclusion'
    BY DEF IInv, ReadFound, Call, TypeOK, MutualExclusion, InCritical,
           Goroutine
  <2>3. RegistryConsistent'
    BY DEF IInv, ReadFound, Call, TypeOK, RegistryConsistent, Registered,
           RequestData, Stages, Goroutine
  <2>4. RequestData'
    BY DEF IInv, ReadFound, Call, TypeOK, RequestData, Stages, Goroutine
  <2>5. RangeData'
    BY DEF IInv, ReadFound, Call, TypeOK, RangeData, MutualExclusion,
           InCritical, Goroutine
  <2>6. TimerData'
    BY DEF IInv, ReadFound, Call, TimerData
  <2> QED BY <2>1, <2>2, <2>3, <2>4, <2>5, <2>6 DEF IInv
<1>3. ASSUME NEW p \in Proc, NEW s \in Sid, ReadMissing(p, s) PROVE IInv'
  <2> USE <1>3
  <2>1. TypeOK'
    BY DEF IInv, ReadMissing, Call, TypeOK, Goroutine
  <2>2. MutualExclusion'
    BY DEF IInv, ReadMissing, Call, TypeOK, MutualExclusion, InCritical,
           Goroutine
  <2>3. RegistryConsistent'
    BY DEF IInv, ReadMissing, Call, TypeOK, RegistryConsistent, Registered,
           RequestData, Stages, Goroutine
  <2>4. RequestData'
    BY DEF IInv, ReadMissing, Call, TypeOK, RequestData, Stages, Goroutine
  <2>5. RangeData'
    BY DEF IInv, ReadMissing, Call, TypeOK, RangeData, MutualExclusion,
           InCritical, Goroutine
  <2>6. TimerData'
    BY DEF IInv, ReadMissing, Call, TimerData
  <2> QED BY <2>1, <2>2, <2>3, <2>4, <2>5, <2>6 DEF IInv
<1>4. ASSUME NEW p \in Proc, LoadSession(p) PROVE IInv'
  <2> USE <1>4
  <2>1. TypeOK'
    BY DEF IInv, LoadSession, TypeOK, Goroutine, RequestData, Stages
  <2>2. MutualExclusion'
    BY DEF IInv, LoadSession, TypeOK, MutualExclusion, InCritical, Goroutine
  <2>3. RegistryConsistent'
    BY DEF IInv, LoadSession, TypeOK, RegistryConsistent, Registered,
           RequestData, Stages, Goroutine
  <2>4. RequestData'
    BY DEF IInv, LoadSession, TypeOK, RequestData, Stages, Goroutine
  <2>5. RangeData'
    BY DEF IInv, LoadSession, TypeOK, RangeData, MutualExclusion, InCritical,
           Goroutine
  <2>6. TimerData'
    BY DEF IInv, LoadSession, TimerData
  <2> QED BY <2>1, <2>2, <2>3, <2>4, <2>5, <2>6 DEF IInv
<1>5. ASSUME NEW p \in Proc, NEW o \in Obj, NewSession(p, o) PROVE IInv'
  <2> USE <1>5
  <2>1. load[p] \in Nat /\ arg[p] \in Sid
    BY DEF IInv, NewSession, TypeOK, RequestData, Stages, Goroutine
  <2>2. TypeOK'
    BY <2>1, NewLifeFacts DEF IInv, NewSession, TypeOK, Goroutine, RequestData,
           Stages
  <2>3. MutualExclusion'
    BY DEF IInv, NewSession, TypeOK, MutualExclusion, InCritical, Goroutine
  <2>4. RegistryConsistent'
    BY <2>1 DEF IInv, NewSession, TypeOK, RegistryConsistent, Registered,
           RequestData, Stages, Goroutine
  <2>5. RequestData'
    BY DEF IInv, NewSession, TypeOK, RequestData, Stages, Goroutine
  <2>6. TimerData'
    BY <2>1, NewLifeFacts DEF IInv, NewSession, TypeOK, TimerData, RequestData,
           Stages, Goroutine
  <2>7. RangeData'
    BY DEF IInv, NewSession, TypeOK, RangeData, MutualExclusion, InCritical,
           Goroutine
  <2> QED BY <2>2, <2>3, <2>4, <2>5, <2>6, <2>7 DEF IInv
<1>6. ASSUME NEW p \in Proc, Publish(p) PROVE IInv'
  <2> USE <1>6
  <2>1. TypeOK'
    BY DEF IInv, Publish, TypeOK, Goroutine, RequestData, Stages
  <2>2. MutualExclusion'
    BY DEF IInv, Publish, TypeOK, MutualExclusion, InCritical, Goroutine
  <2>3. RegistryConsistent'
    BY DEF IInv, Publish, TypeOK, RegistryConsistent, Registered, RequestData,
           Stages, Goroutine
  <2>4. RequestData'
    BY DEF IInv, Publish, TypeOK, RequestData, Stages, Goroutine
  <2>5. RangeData'
    BY DEF IInv, Publish, TypeOK, RangeData, MutualExclusion, InCritical,
           Goroutine
  <2>6. TimerData'
    BY DEF IInv, Publish, TimerData
  <2> QED BY <2>1, <2>2, <2>3, <2>4, <2>5, <2>6 DEF IInv
<1>7. ASSUME NEW p \in Proc, Mutate(p) PROVE IInv'
  <2> USE <1>7
  <2>1. cur[p] \in Obj /\ life[cur[p]].time \in Nat /\ arg[p] \in Sid
    BY DEF IInv, Mutate, TypeOK, RequestData, Stages, Goroutine, LifeTimes
  <2>2. TypeOK'
    BY <2>1 DEF IInv, Mutate, TypeOK, Goroutine
  <2>3. MutualExclusion' /\ RegistryConsistent' /\ RequestData' /\ TimerData' /\ RangeData'
    BY DEF IInv, Mutate, MutualExclusion, RegistryConsistent, Registered,
           RequestData, TimerData, RangeData
  <2> QED BY <2>2, <2>3 DEF IInv
<1>8. ASSUME NEW p \in Proc, Return(p) PROVE IInv'
  <2> USE <1>8
  <2>1. TypeOK'
    BY DEF IInv, Return, TypeOK, Goroutine
  <2>2. MutualExclusion'
    BY DEF IInv, Return, TypeOK, MutualExclusion, InCritical, Goroutine
  <2>3. RegistryConsistent'
    BY DEF IInv, Return, TypeOK, RegistryConsistent, Registered, RequestData,
           Stages, Goroutine
  <2>4. RequestData'
    BY DEF IInv, Return, TypeOK, RequestData, Stages, Goroutine
  <2>5. RangeData'
    BY DEF IInv, Return, TypeOK, RangeData, MutualExclusion, InCritical,
           Goroutine
  <2>6. TimerData'
    BY DEF IInv, Return, TimerData
  <2> QED BY <2>1, <2>2, <2>3, <2>4, <2>5, <2>6 DEF IInv
<1>9. ASSUME NEW p \in Proc, NEW s \in Sid, UpdateExpiration(p, s) PROVE IInv'
  <2> USE <1>9
  <2>1. TypeOK'
    BY DEF IInv, UpdateExpiration, Call, TypeOK, Goroutine
  <2>2. MutualExclusion'
    BY DEF IInv, UpdateExpiration, Call, TypeOK, MutualExclusion, InCritical,
           Goroutine
  <2>3. RegistryConsistent'
    BY DEF IInv, UpdateExpiration, Call, TypeOK, RegistryConsistent,
           Registered, RequestData, Stages, Goroutine
  <2>4. RequestData'
    BY DEF IInv, UpdateExpiration, Call, TypeOK, RequestData, Stages, Goroutine
  <2>5. RangeData'
    BY DEF IInv, UpdateExpiration, Call, TypeOK, RangeData, MutualExclusion,
           InCritical, Goroutine
  <2>6. TimerData'
    BY DEF IInv, UpdateExpiration, Call, TimerData
  <2> QED BY <2>1, <2>2, <2>3, <2>4, <2>5, <2>6 DEF IInv
<1>10. ASSUME NEW p \in Proc, NEW d \in Updates, ShiftLifetime(p, d) PROVE IInv'
  <2> USE <1>10
  <2>1. cur[p] \in Obj /\ life[cur[p]] \in LifeTimes /\ now \in Nat
    BY DEF IInv, ShiftLifetime, TypeOK, RequestData
  <2>2. TypeOK'
    BY <2>1, ShiftFacts DEF IInv, ShiftLifetime, TypeOK, Goroutine
  <2>3. MutualExclusion'
    BY DEF IInv, ShiftLifetime, TypeOK, MutualExclusion, InCritical, Goroutine
  <2>4. RegistryConsistent'
    BY <2>1 DEF IInv, ShiftLifetime, TypeOK, RegistryConsistent, Registered,
           RequestData, Stages, Goroutine
  <2>5. RequestData'
    BY DEF IInv, ShiftLifetime, TypeOK, RequestData, Stages, Goroutine
  <2>6. TimerData'
    <3> SUFFICES ASSUME NEW o \in Obj, life'[o].timer # "nil" \/ firing'[o] > 0
                 PROVE  sidOf[o] \in Sid
      BY DEF ShiftLifetime, TimerData
    <3>1. CASE o = cur[p]
      <4>1. life'[o] = Shift(life[o], d, now) /\ firing' = firing
        BY <2>1, <3>1 DEF IInv, ShiftLifetime, TypeOK
      <4>2. life[o].timer = "nil" => life'[o] = life[o]
        BY <2>1, <3>1, <4>1, ShiftFacts
      <4> QED BY <4>1, <4>2 DEF IInv, TimerData
    <3>2. CASE o # cur[p]
      BY <3>2 DEF IInv, ShiftLifetime, TypeOK, TimerData
    <3> QED BY <3>1, <3>2
  <2>7. RangeData'
    BY DEF IInv, ShiftLifetime, TypeOK, RangeData, MutualExclusion, InCritical,
           Goroutine
  <2> QED BY <2>2, <2>3, <2>4, <2>5, <2>6, <2>7 DEF IInv
<1>11. ASSUME NEW p \in Proc, NEW s \in Sid, Destroy(p, s) PROVE IInv'
  <2> USE <1>11
  <2>1. TypeOK'
    <3>1. p \in Goroutine
      BY DEF Goroutine
    <3>2. mu' \in Goroutine \cup {None} /\ sessions' \in [Sid -> Obj \cup {None}]
      BY <3>1 DEF IInv, Destroy, DestroyLocked, TypeOK
    <3>3. pc' \in [Goroutine -> Stages]
      BY <3>1 DEF IInv, Destroy, DestroyLocked, TypeOK, Stages
    <3>4. arg' \in [Goroutine -> Sid \cup {None}]
      BY <3>1 DEF IInv, Destroy, DestroyLocked, TypeOK
    <3> QED BY <3>2, <3>3, <3>4 DEF IInv, Destroy, TypeOK, Stages
  <2>2. MutualExclusion'
    BY DEF IInv, Destroy, Call, DestroyLocked, TypeOK, MutualExclusion,
           InCritical, Goroutine
  <2>3. RegistryConsistent'
    BY DEF IInv, Destroy, Call, DestroyLocked, TypeOK, RegistryConsistent,
           Registered, RequestData, Stages, Goroutine
  <2>4. RequestData'
    BY DEF IInv, Destroy, Call, DestroyLocked, TypeOK, RequestData, Stages,
           Goroutine
  <2>5. RangeData'
    BY DEF IInv, Destroy, Call, DestroyLocked, TypeOK, RangeData,
           MutualExclusion, InCritical, Goroutine
  <2>6. TimerData'
    BY DEF IInv, Destroy, Call, DestroyLocked, TimerData
  <2> QED BY <2>1, <2>2, <2>3, <2>4, <2>5, <2>6 DEF IInv
<1>12. ASSUME NEW g \in Goroutine, DestroySync(g) PROVE IInv'
  <2> USE <1>12
  <2>1. TypeOK'
    BY DEF IInv, DestroySync, NoEntry, TypeOK, Goroutine, RequestData, Stages
  <2>2. MutualExclusion'
    BY DEF IInv, DestroySync, NoEntry, TypeOK, MutualExclusion, InCritical,
           Goroutine
  <2>3. RegistryConsistent'
    BY DEF IInv, DestroySync, NoEntry, TypeOK, RegistryConsistent, Registered,
           RequestData, Stages, Goroutine
  <2>4. RequestData'
    BY DEF IInv, DestroySync, NoEntry, TypeOK, RequestData, Stages, Goroutine
  <2>5. RangeData'
    BY DEF IInv, DestroySync, NoEntry, TypeOK, RangeData, MutualExclusion,
           InCritical, Goroutine
  <2>6. TimerData'
    BY DEF IInv, DestroySync, NoEntry, TimerData
  <2> QED BY <2>1, <2>2, <2>3, <2>4, <2>5, <2>6 DEF IInv
<1>13. ASSUME NEW p \in Proc, DestroyAll(p) PROVE IInv'
  <2> USE <1>13
  <2>1. TypeOK'
    BY DEF IInv, DestroyAll, Call, TypeOK, Goroutine
  <2>2. MutualExclusion'
    BY DEF IInv, DestroyAll, Call, TypeOK, MutualExclusion, InCritical,
           Goroutine
  <2>3. RegistryConsistent'
    BY DEF IInv, DestroyAll, Call, TypeOK, RegistryConsistent, Registered,
           RequestData, Stages, Goroutine
  <2>4. RequestData'
    BY DEF IInv, DestroyAll, Call, TypeOK, RequestData, Stages, Goroutine
  <2>5. RangeData'
    BY DEF IInv, DestroyAll, Call, TypeOK, RangeData, MutualExclusion,
           InCritical, Goroutine
  <2>6. TimerData'
    BY DEF IInv, DestroyAll, Call, TimerData
  <2> QED BY <2>1, <2>2, <2>3, <2>4, <2>5, <2>6 DEF IInv
<1>14. ASSUME NEW p \in Proc, NEW s \in Sid, DestroyAllNext(p, s) PROVE IInv'
  <2> USE <1>14
  <2>1. TypeOK'
    BY DEF IInv, DestroyAllNext, TypeOK, Goroutine
  <2>2. MutualExclusion'
    BY DEF IInv, DestroyAllNext, TypeOK, MutualExclusion, InCritical, Goroutine
  <2>3. RegistryConsistent'
    BY DEF IInv, DestroyAllNext, TypeOK, RegistryConsistent, Registered,
           RequestData, Stages, Goroutine
  <2>4. RequestData'
    BY DEF IInv, DestroyAllNext, TypeOK, RequestData, Stages, Goroutine
  <2>5. RangeData'
    BY DEF IInv, DestroyAllNext, TypeOK, RangeData, MutualExclusion,
           InCritical, Goroutine
  <2>6. TimerData'
    BY DEF IInv, DestroyAllNext, TimerData
  <2> QED BY <2>1, <2>2, <2>3, <2>4, <2>5, <2>6 DEF IInv
<1>15. ASSUME NEW p \in Proc, DestroyAllSync(p) PROVE IInv'
  <2> USE <1>15
  <2>1. TypeOK'
    BY DEF IInv, DestroyAllSync, NoEntry, TypeOK, Goroutine, RequestData,
           Stages
  <2>2. MutualExclusion'
    BY DEF IInv, DestroyAllSync, NoEntry, TypeOK, MutualExclusion, InCritical,
           Goroutine
  <2>3. RegistryConsistent'
    BY DEF IInv, DestroyAllSync, NoEntry, TypeOK, RegistryConsistent,
           Registered, RequestData, Stages, Goroutine
  <2>4. RequestData'
    BY DEF IInv, DestroyAllSync, NoEntry, TypeOK, RequestData, Stages,
           Goroutine
  <2>5. RangeData'
    BY DEF IInv, DestroyAllSync, NoEntry, TypeOK, RangeData, MutualExclusion,
           InCritical, Goroutine
  <2>6. TimerData'
    BY DEF IInv, DestroyAllSync, NoEntry, TimerData
  <2> QED BY <2>1, <2>2, <2>3, <2>4, <2>5, <2>6 DEF IInv
<1>16. ASSUME NEW p \in Proc, DestroyAllEnd(p) PROVE IInv'
  <2> USE <1>16
  <2>1. TypeOK'
    BY DEF IInv, DestroyAllEnd, TypeOK, Goroutine
  <2>2. MutualExclusion'
    BY DEF IInv, DestroyAllEnd, TypeOK, MutualExclusion, InCritical, Goroutine
  <2>3. RegistryConsistent'
    BY DEF IInv, DestroyAllEnd, TypeOK, RegistryConsistent, Registered,
           RequestData, Stages, Goroutine
  <2>4. RequestData'
    BY DEF IInv, DestroyAllEnd, TypeOK, RequestData, Stages, Goroutine
  <2>5. RangeData'
    BY DEF IInv, DestroyAllEnd, TypeOK, RangeData, MutualExclusion, InCritical,
           Goroutine
  <2>6. TimerData'
    BY DEF IInv, DestroyAllEnd, TimerData
  <2> QED BY <2>1, <2>2, <2>3, <2>4, <2>5, <2>6 DEF IInv
<1>17. ASSUME NEW o \in Obj, Fire(o) PROVE IInv'
  <2> USE <1>17
  <2>1. TypeOK'
    BY DEF IInv, Fire, TypeOK, Goroutine, LifeTimes, TimerState
  <2>2. TimerData'
    BY DEF IInv, Fire, TypeOK, TimerData, Goroutine, LifeTimes, TimerState
  <2>3. MutualExclusion' /\ RegistryConsistent' /\ RequestData' /\ RangeData'
    BY DEF IInv, Fire, MutualExclusion, RegistryConsistent, Registered,
           RequestData, RangeData
  <2> QED BY <2>1, <2>2, <2>3 DEF IInv
<1>18. ASSUME NEW o \in Obj, OnExpire(o) PROVE IInv'
  <2> USE <1>18
  <2>1. TypeOK'
    BY DEF IInv, OnExpire, DestroyLocked, TypeOK, Goroutine
  <2>2. MutualExclusion'
    BY DEF IInv, OnExpire, DestroyLocked, TypeOK, MutualExclusion, InCritical,
           Goroutine
  <2>3. RegistryConsistent'
    BY DEF IInv, OnExpire, DestroyLocked, TypeOK, RegistryConsistent,
           Registered, RequestData, Stages, Goroutine
  <2>4. RequestData'
    BY DEF IInv, OnExpire, DestroyLocked, TypeOK, RequestData, Stages,
           Goroutine, TimerData
  <2>5. TimerData'
    BY DEF IInv, OnExpire, DestroyLocked, TypeOK, TimerData, Goroutine
  <2>6. RangeData'
    BY DEF IInv, OnExpire, DestroyLocked, TypeOK, RangeData, MutualExclusion,
           InCritical, Goroutine
  <2> QED BY <2>1, <2>2, <2>3, <2>4, <2>5, <2>6 DEF IInv
<1>19. ASSUME Tick PROVE IInv'
  <2> USE <1>19
  <2>1. TypeOK'
    BY DEF IInv, Tick, TypeOK, Goroutine
  <2>2. MutualExclusion' /\ RegistryConsistent' /\ RequestData' /\ TimerData' /\ RangeData'
    BY DEF IInv, Tick, MutualExclusion, RegistryConsistent, Registered,
           RequestData, TimerData, RangeData
  <2> QED BY <2>1, <2>2 DEF IInv
<1>20. ASSUME Restart PROVE IInv'
  <2> USE <1>20
  <2>1. TypeOK'
    BY StoredType DEF IInv, Restart, Cleanup, NoEntry, TypeOK, Goroutine
  <2>2. MutualExclusion'
    BY DEF IInv, Restart, Cleanup, NoEntry, TypeOK, MutualExclusion,
           InCritical, Goroutine
  <2>3. RegistryConsistent'
    BY DEF IInv, Restart, Cleanup, NoEntry, TypeOK, RegistryConsistent,
           Registered, RequestData, Stages, Goroutine
  <2>4. RequestData'
    BY DEF IInv, Restart, Cleanup, NoEntry, TypeOK, RequestData, Stages,
           Goroutine
  <2>5. TimerData'
    BY StoredType DEF IInv, Restart, Cleanup, NoEntry, TypeOK, TimerData,
           RequestData, Stages, Goroutine
  <2>6. RangeData'
    BY DEF IInv, Restart, Cleanup, NoEntry, TypeOK, RangeData, MutualExclusion,
           InCritical, Goroutine
  <2> QED BY <2>1, <2>2, <2>3, <2>4, <2>5, <2>6 DEF IInv
<1>22. ASSUME NEW p \in Proc, RunFlashGC(p) PROVE IInv'
  <2> USE <1>22
  <2>1. TypeOK'
    BY DEF IInv, RunFlashGC, TypeOK, Goroutine
  <2>2. MutualExclusion'
    BY DEF IInv, RunFlashGC, TypeOK, MutualExclusion, InCritical, Goroutine
  <2>3. RegistryConsistent'
    BY DEF IInv, RunFlashGC, TypeOK, RegistryConsistent, Registered, RequestData,
           Stages, Goroutine
  <2>4. RequestData'
    BY DEF IInv, RunFlashGC, TypeOK, RequestData, Stages, Goroutine
  <2>5. RangeData'
    BY DEF IInv, RunFlashGC, TypeOK, RangeData, MutualExclusion, InCritical,
           Goroutine
  <2>6. TimerData'
    BY DEF IInv, RunFlashGC, TimerData
  <2> QED BY <2>1, <2>2, <2>3, <2>4, <2>5, <2>6 DEF IInv
<1>23. ASSUME NEW p \in Proc, GetFlash(p) PROVE IInv'
  <2> USE <1>23
  <2>1. TypeOK'
    BY DEF IInv, GetFlash, TypeOK, Goroutine
  <2>2. MutualExclusion' /\ RegistryConsistent' /\ RequestData' /\ TimerData' /\ RangeData'
    BY DEF IInv, GetFlash, MutualExclusion, RegistryConsistent, Registered,
           RequestData, TimerData, RangeData
  <2> QED BY <2>1, <2>2 DEF IInv
<1>21. CASE UNCHANGED vars
  BY <1>21 DEF vars, IInv, TypeOK, MutualExclusion, RegistryConsistent,
               Registered, RequestData, TimerData, RangeData
<1> QED BY <1>1, <1>2, <1>3, <1>4, <1>5, <1>6, <1>7, <1>8, <1>9, <1>10, <1>11,
           <1>12, <1>13, <1>14, <1>15, <1>16, <1>17, <1>18, <1>19, <1>20, <1>21,
           <1>22, <1>23 DEF Next, Request

------------------------------------------------------------------------------
\* No date lies further ahead than the configured life, a running timer is due
\* no earlier than the date of its session, and one that fired had reached it.
Span == IF Expires > 0 THEN Expires ELSE 0

LongUpdates == \A d \in Updates : d >= Expires

Dates ==
    /\ \A o \in Obj :
          /\ life[o].time <= now + Span
          /\ life[o].timer = "armed" => life[o].at >= life[o].time
          /\ life[o].timer = "fired" \/ firing[o] > 0 => life[o].time <= now
    /\ \A s \in Sid : db[s].time <= now + Span
    /\ \A p \in Proc : load[p] <= now + Span

\* The initial states satisfy Dates: nothing has a date yet.
LEMMA InitDates == Init => Dates
BY ProviderAssumption DEF Init, Dates, Span, Stored, NoEntry

\* Every step keeps Dates when updates are not shorter than the configured life.
LEMMA StepDates == LongUpdates /\ IInv /\ Dates /\ [Next]_vars => Dates'
<1> SUFFICES ASSUME LongUpdates, IInv, Dates, [Next]_vars PROVE Dates'
  OBVIOUS
<1> USE ProviderAssumption
<1>0. now \in Nat /\ Span \in Nat
  BY DEF IInv, TypeOK, Span
<1>1. ASSUME NEW p \in Proc, LoadSession(p) PROVE Dates'
  BY <1>0, <1>1 DEF IInv, TypeOK, LoadSession, Dates, RequestData, Stages, Goroutine
<1>2. ASSUME NEW p \in Proc, NEW o \in Obj, NewSession(p, o) PROVE Dates'
  <2>1. load[p] \in Nat /\ load[p] <= now + Span /\ ~(firing[o] > 0)
    BY <1>2 DEF IInv, TypeOK, NewSession, Dates, TimerData
  <2>2. /\ NewLife(load[p]).time <= now + Span
        /\ NewLife(load[p]).timer # "fired"
        /\ NewLife(load[p]).timer = "armed" =>
              NewLife(load[p]).at >= NewLife(load[p]).time
    BY <1>0, <2>1, NewLifeFacts DEF IInv, Span
  <2>3. \A q \in Proc : load'[q] <= now + Span
    BY <1>0, <1>2 DEF IInv, TypeOK, NewSession, Dates
  <2>4. \A x \in Obj : life'[x] = IF x = o THEN NewLife(load[p]) ELSE life[x]
    BY <1>2 DEF IInv, TypeOK, NewSession
  <2>5. UNCHANGED <<now, firing, db>>
    BY <1>2 DEF NewSession
  <2> QED BY <2>1, <2>2, <2>3, <2>4, <2>5 DEF Dates, Span
<1>3. ASSUME NEW p \in Proc, Mutate(p) PROVE Dates'
  BY <1>0, <1>3 DEF IInv, TypeOK, Mutate, Dates, RequestData
<1>4. ASSUME NEW p \in Proc, NEW d \in Updates, ShiftLifetime(p, d) PROVE Dates'
  <2>1. cur[p] \in Obj /\ life[cur[p]] \in LifeTimes /\ d \in Nat \ {0} /\ d >= Expires
    BY <1>4 DEF IInv, TypeOK, ShiftLifetime, RequestData, LongUpdates
  <2> DEFINE lt == Shift(life[cur[p]], d, now)
  <2>2. /\ lt.time = life[cur[p]].time
        /\ lt = life[cur[p]] \/ (lt.timer = "armed" /\ lt.at = now + d)
    <3>1. CASE life[cur[p]].timer = "nil"
      BY <1>0, <2>1, <3>1, ShiftFacts
    <3>2. CASE life[cur[p]].timer # "nil"
      BY <1>0, <2>1, <3>2, ShiftFacts
    <3> QED BY <3>1, <3>2
  <2>3. life[cur[p]].time <= now + Span /\ life[cur[p]].time \in Nat
    BY <2>1 DEF Dates, LifeTimes
  <2>4. life' = [life EXCEPT ![cur[p]] = lt] /\ UNCHANGED <<now, firing, db, load>>
    BY <1>4 DEF ShiftLifetime
  <2> HIDE DEF lt
  <2>5. now + d >= life[cur[p]].time
    BY <1>0, <2>1, <2>3 DEF Span
  <2> QED BY <2>1, <2>2, <2>4, <2>5 DEF IInv, TypeOK, Dates
<1>5. ASSUME NEW g \in Goroutine, DestroySync(g) PROVE Dates'
  BY <1>0, <1>5 DEF IInv, TypeOK, DestroySync, NoEntry, Dates, RequestData, Stages
<1>6. ASSUME NEW p \in Proc, DestroyAllSync(p) PROVE Dates'
  BY <1>0, <1>6 DEF IInv, TypeOK, DestroyAllSync, NoEntry, Dates, RequestData,
                    Stages, Goroutine
<1>7. ASSUME NEW o \in Obj, Fire(o) PROVE Dates'
  BY <1>0, <1>7 DEF IInv, TypeOK, LifeTimes, Fire, Dates
<1>8. ASSUME NEW o \in Obj, OnExpire(o) PROVE Dates'
  BY <1>0, <1>8 DEF IInv, TypeOK, OnExpire, Dates
<1>9. CASE Tick
  <2>1. /\ \A o \in Obj : life[o].time \in Nat
        /\ \A s \in Sid : db[s].time \in Nat
        /\ \A p \in Proc : load[p] \in Nat
    BY DEF IInv, TypeOK, LifeTimes
  <2> QED BY <1>0, <1>9, <2>1 DEF Tick, Dates, Span
<1>10. CASE Restart
  BY <1>0, <1>10 DEF IInv, TypeOK, Restart, Cleanup, NoEntry, Stored, Dates
<1>11. CASE UNCHANGED <<now, life, firing, db, load>>
  BY <1>11 DEF Dates, Span
<1>12. ASSUME NEW p \in Proc, NEW s \in Sid,
              \/ StartNew(p, s) \/ ReadFound(p, s) \/ ReadMissing(p, s)
              \/ UpdateExpiration(p, s) \/ Destroy(p, s) \/ DestroyAllNext(p, s)
       PROVE  UNCHANGED <<now, life, firing, db, load>>
  BY <1>12 DEF StartNew, ReadFound, ReadMissing, UpdateExpiration, Destroy,
               DestroyAllNext
<1>13. ASSUME NEW p \in Proc,
              \/ RunFlashGC(p) \/ GetFlash(p) \/ Publish(p) \/ Return(p)
              \/ DestroyAll(p) \/ DestroyAllEnd(p)
       PROVE  UNCHANGED <<now, life, firing, db, load>>
  BY <1>13 DEF RunFlashGC, GetFlash, Publish, Return, DestroyAll, DestroyAllEnd
<1> QED BY <1>1, <1>2, <1>3, <1>4, <1>5, <1>6, <1>7, <1>8, <1>9, <1>10, <1>11,
           <1>12, <1>13 DEF Next, Request, vars

------------------------------------------------------------------------------
\* The inductive invariant holds in every reachable state.
THEOREM Invariance == Spec => []IInv
BY InitInv, StepInv, PTL DEF Spec

\* The state of the provider keeps its type: in particular a request that is
\* about to register, update or destroy a session has an id and a session.
THEOREM TypeCorrect == Spec => []TypeOK
<1>1. IInv => TypeOK
  BY DEF IInv
<1> QED BY Invariance, <1>1, PTL

\* At most one goroutine is between Lock and Unlock of provider.mu, whatever
\* requests and timers run.
THEOREM Exclusive == Spec => []MutualExclusion
<1>1. IInv => MutualExclusion
  BY DEF IInv
<1> QED BY Invariance, <1>1, PTL

\* The registry maps an id to a session made for that id, and a session not yet
\* registered belongs to one request.
THEOREM Consistent == Spec => []RegistryConsistent
<1>1. IInv => RegistryConsistent
  BY DEF IInv
<1> QED BY Invariance, <1>1, PTL

\* A step that neither makes nor registers a session adds nothing to the
\* registry and brings no session before its registration.
Quiet ==
    /\ UNCHANGED sidOf
    /\ \A s \in Sid : sessions'[s] \in {sessions[s], None}
    /\ \A p \in Proc : pc'[p] = "publish" => pc[p] = "publish" /\ cur'[p] = cur[p]

\* All steps but newSession's, Init's and a restart are quiet.
LEMMA OtherStepsQuiet ==
    ASSUME IInv, [Next]_vars, ~Restart,
           \A p \in Proc : ~Publish(p) /\ \A o \in Obj : ~NewSession(p, o)
    PROVE  Quiet
<1> USE ProviderAssumption DEF Quiet
<1>1. ASSUME NEW p \in Proc, NEW s \in Sid,
             \/ StartNew(p, s) \/ ReadFound(p, s) \/ ReadMissing(p, s)
             \/ UpdateExpiration(p, s) \/ Destroy(p, s) \/ DestroyAllNext(p, s)
      PROVE  Quiet
  BY <1>1 DEF StartNew, ReadFound, ReadMissing, UpdateExpiration, Destroy,
              DestroyLocked, DestroyAllNext, IInv, TypeOK, Goroutine
<1>2. ASSUME NEW p \in Proc,
             \/ RunFlashGC(p) \/ LoadSession(p) \/ Mutate(p) \/ GetFlash(p)
             \/ Return(p) \/ \E d \in Updates : ShiftLifetime(p, d)
             \/ DestroyAll(p) \/ DestroyAllSync(p) \/ DestroyAllEnd(p)
      PROVE  Quiet
  BY <1>2 DEF RunFlashGC, LoadSession, Mutate, GetFlash, Return, ShiftLifetime, DestroyAll,
              DestroyAllSync, DestroyAllEnd, IInv, TypeOK, Goroutine
<1>3. ASSUME NEW g \in Goroutine, DestroySync(g) PROVE Quiet
  BY <1>3 DEF DestroySync, IInv, TypeOK, Goroutine
<1>4. ASSUME NEW o \in Obj, Fire(o) \/ OnExpire(o) PROVE Quiet
  BY <1>4 DEF Fire, OnExpire, DestroyLocked, IInv, TypeOK, Goroutine, TimerData
<1>5. CASE Tick \/ UNCHANGED vars
  BY <1>5 DEF Tick, vars
<1> QED BY <1>1, <1>2, <1>3, <1>4, <1>5 DEF Next, Request

\* A session that left the registry is never registered again.
THEOREM NoReturn == Spec => RetiredForGood
<1> DEFINE Stays == ~Restart => \A o \in Obj : Retired(o) => Retired(o)'
<1>1. IInv /\ [Next]_vars => [Stays]_vars
  <2> SUFFICES ASSUME IInv, [Next]_vars, ~Restart,
                      NEW o \in Obj, Retired(o)
               PROVE  Retired(o)'
    OBVIOUS
  <2> USE ProviderAssumption DEF Retired, Registered, Unpublished
  <2>1. ASSUME NEW p \in Proc, Publish(p) PROVE Retired(o)'
    BY <2>1 DEF Publish, IInv, TypeOK, Goroutine
  <2>2. ASSUME NEW p \in Proc, NEW n \in Obj, NewSession(p, n) PROVE Retired(o)'
    BY <2>2 DEF NewSession, IInv, TypeOK, Goroutine
  <2>3. CASE Quiet
    BY <2>3 DEF Quiet
  <2> QED BY <2>1, <2>2, <2>3, OtherStepsQuiet
<1> HIDE DEF Stays
<1>2. IInv /\ [Next]_vars => [~Restart =>
                                \A o \in Obj : Retired(o) => Retired(o)']_vars
  BY <1>1 DEF Stays
<1> QED BY Invariance, <1>2, PTL DEF Spec, RetiredForGood

\* DestroyAll unlocks an empty registry: everything registered is on the list
\* of its range, because nobody can register a session meanwhile.
THEOREM EmptiedByDestroyAll == Spec => DestroyAllEmpties
<1>1. IInv /\ [Next]_vars =>
        [\A p \in Proc : pc[p] = "all" /\ pc'[p] = "idle" /\ ~Restart
                           => \A s \in Sid : sessions[s] = None]_vars
  <2> SUFFICES ASSUME IInv, Next, NEW p \in Proc, pc[p] = "all", pc'[p] = "idle",
                      ~Restart, NEW s \in Sid
               PROVE  sessions[s] = None
    OBVIOUS
  <2>1. todo = {}
    <3> USE ProviderAssumption
    <3>1. ASSUME NEW q \in Proc, NEW t \in Sid,
                 \/ StartNew(q, t) \/ ReadFound(q, t) \/ ReadMissing(q, t)
                 \/ UpdateExpiration(q, t) \/ Destroy(q, t) \/ DestroyAllNext(q, t)
          PROVE  FALSE
      BY <3>1 DEF StartNew, ReadFound, ReadMissing, UpdateExpiration, Destroy,
                  DestroyLocked, DestroyAllNext, Call, IInv, TypeOK, Goroutine
    <3>2. ASSUME NEW q \in Proc,
                 \/ RunFlashGC(q) \/ LoadSession(q)
                 \/ \E o \in Obj : NewSession(q, o)
                 \/ Publish(q) \/ Mutate(q) \/ GetFlash(q) \/ Return(q)
                 \/ \E d \in Updates : ShiftLifetime(q, d)
                 \/ DestroyAll(q) \/ DestroyAllSync(q)
          PROVE  FALSE
      BY <3>2 DEF RunFlashGC, LoadSession, NewSession, Publish, Mutate, GetFlash,
                  Return, ShiftLifetime, DestroyAll, DestroyAllSync, Call, IInv, TypeOK, Goroutine
    <3>3. ASSUME NEW g \in Goroutine, DestroySync(g) PROVE FALSE
      BY <3>3 DEF DestroySync, IInv, TypeOK, Goroutine
    <3>4. ASSUME NEW o \in Obj, Fire(o) \/ OnExpire(o) PROVE FALSE
      BY <3>4 DEF Fire, OnExpire, DestroyLocked, IInv, TypeOK, Goroutine
    <3>5. ~Tick
      BY DEF Tick, IInv, TypeOK
    <3> QED BY <3>1, <3>2, <3>3, <3>4, <3>5 DEF Next, Request, DestroyAllEnd
  <2> QED BY <2>1 DEF IInv, RangeData
<1> QED BY Invariance, <1>1, PTL DEF Spec, DestroyAllEmpties

\* No timer comes before the date of its session, if updates are not shorter
\* than the configured life.
THEOREM TimersNotEarly == Spec => []NoEarlyExpiry
<1>1. LongUpdates /\ Dates => NoEarlyExpiry
  BY DEF Dates, NoEarlyExpiry
<1>2. ~LongUpdates => NoEarlyExpiry
  BY DEF LongUpdates, NoEarlyExpiry
<1>3. CASE LongUpdates
  <2>1. Spec => []Dates
    BY <1>3, Invariance, InitDates, StepDates, PTL DEF Spec
  <2> QED BY <1>1, <1>3, <2>1, PTL
<1>4. CASE ~LongUpdates
  BY <1>2, <1>4, PTL
<1> QED BY <1>3, <1>4
==============================================================================
