---------------------------- MODULE SessionProofs ----------------------------
(***************************************************************************)
(* Proofs about Session: the flash messages, for any number of sessions,   *)
(* keys, requests and messages, the leaked mutex included.                 *)
(***************************************************************************)
EXTENDS Session, TLAPS

\* A request that has begun has a session, a goroutine that serves none has no
\* old messages, and a method that was called has a key.
\* Between peekFlashMessage and the marking of the message GetFlash holds the
\* mutex of the session, so the message stays in place.
RequestData ==
    \A p \in Proc :
        /\ pc[p] # "idle" => sess[p] \in Sess
        /\ pc[p] = "idle" => old[p] = {}
        /\ pc[p] \in Methods \cup {"mark"} => key[p] \in Key
        /\ pc[p] = "mark" => /\ smu[sess[p]] = p
                             /\ flashes[sess[p]][key[p]] # None

\* No message is numbered beyond the last one made.
Numbered ==
    /\ \A x \in Sess, k \in Key : flashes[x][k] # None => flashes[x][k] <= last
    /\ \A m \in remove : m <= last
    /\ \A p \in Proc, m \in Nat : m \in old[p] => m <= last

\* Exactly the messages that were returned are marked for the GC.
Marked == fetched = remove

IInv == TypeOK /\ RequestData /\ Numbered /\ Marked /\ FetchedOnce

------------------------------------------------------------------------------
\* The initial states satisfy the inductive invariant.
LEMMA InitInv == Init => IInv
BY SessionAssumption
   DEF Init, IInv, TypeOK, RequestData, Numbered, Marked, FetchedOnce, Methods

\* Every step keeps the inductive invariant.
LEMMA StepInv == IInv /\ [Next]_vars => IInv'
<1> SUFFICES ASSUME IInv, [Next]_vars PROVE IInv'
  OBVIOUS
<1> USE SessionAssumption
<1>1. ASSUME NEW p \in Proc, NEW x \in Sess, Start(p, x) PROVE IInv'
  <2> USE <1>1
  <2>1. TypeOK'
    BY DEF IInv, TypeOK, Start, RequestData, Methods
  <2>2. RequestData'
    BY DEF IInv, TypeOK, Start, Methods, RequestData
  <2>3. Numbered' /\ Marked'
    BY DEF IInv, TypeOK, Start, Numbered, Marked
  <2>4. FetchedOnce'
    BY DEF IInv, TypeOK, Start, RequestData, Methods, FetchedOnce, Messages,
           Numbered, Marked
  <2> QED BY <2>1, <2>2, <2>3, <2>4 DEF IInv
<1>2. ASSUME NEW p \in Proc, Read(p) PROVE IInv'
  <2> USE <1>2
  <2>1. TypeOK'
    BY DEF IInv, TypeOK, Read, RequestData, Methods
  <2>2. RequestData'
    BY DEF IInv, TypeOK, Read, Methods, RequestData
  <2>3. Numbered' /\ Marked'
    BY DEF IInv, TypeOK, Read, Numbered, Marked
  <2>4. FetchedOnce'
    BY DEF IInv, TypeOK, Read, RequestData, Methods, FetchedOnce, Messages,
           Numbered, Marked
  <2> QED BY <2>1, <2>2, <2>3, <2>4 DEF IInv
<1>3. ASSUME NEW p \in Proc, RunFlashGC(p) PROVE IInv'
  <2> USE <1>3
  <2>1. TypeOK'
    BY DEF IInv, TypeOK, RunFlashGC, Free, Collected, Messages, RequestData, Methods
  <2>2. RequestData'
    BY DEF IInv, TypeOK, RunFlashGC, Free, Collected, Messages, Methods, RequestData
  <2>3. Numbered'
    BY DEF IInv, TypeOK, RunFlashGC, Free, Collected, Messages, RequestData, Methods,
           Numbered
  <2>4. Marked'
    BY DEF IInv, TypeOK, RunFlashGC, Free, Collected, Messages, Marked
  <2>5. FetchedOnce'
    BY DEF IInv, TypeOK, RunFlashGC, Free, Collected, Messages, RequestData, Methods,
           FetchedOnce, Numbered, Marked
  <2> QED BY <2>1, <2>2, <2>3, <2>4, <2>5 DEF IInv
<1>4. ASSUME NEW p \in Proc, NEW m \in Methods, NEW k \in Key, Invoke(p, m, k) PROVE IInv'
  <2> USE <1>4
  <2>1. TypeOK'
    BY DEF IInv, TypeOK, Invoke, RequestData, Methods
  <2>2. RequestData'
    BY DEF IInv, TypeOK, Invoke, Methods, RequestData
  <2>3. Numbered' /\ Marked'
    BY DEF IInv, TypeOK, Invoke, Numbered, Marked
  <2>4. FetchedOnce'
    BY DEF IInv, TypeOK, Invoke, RequestData, Methods, FetchedOnce, Messages,
           Numbered, Marked
  <2> QED BY <2>1, <2>2, <2>3, <2>4 DEF IInv
<1>5. ASSUME NEW p \in Proc, Return(p) PROVE IInv'
  <2> USE <1>5
  <2>1. TypeOK'
    BY DEF IInv, TypeOK, Return, RequestData, Methods
  <2>2. RequestData'
    BY DEF IInv, TypeOK, Return, Methods, RequestData
  <2>3. Numbered' /\ Marked'
    BY DEF IInv, TypeOK, Return, Numbered, Marked
  <2>4. FetchedOnce'
    BY DEF IInv, TypeOK, Return, RequestData, Methods, FetchedOnce, Messages,
           Numbered, Marked
  <2> QED BY <2>1, <2>2, <2>3, <2>4 DEF IInv
<1>6. ASSUME NEW p \in Proc, SetFlash(p) PROVE IInv'
  <2> USE <1>6
  <2>1. TypeOK'
    BY DEF IInv, TypeOK, SetFlash, Locked, Free, RequestData, Methods
  <2>2. RequestData'
    BY DEF IInv, TypeOK, SetFlash, Locked, Free, Methods, RequestData
  <2>3. Numbered'
    BY DEF IInv, TypeOK, SetFlash, Locked, Free, RequestData, Methods, Numbered
  <2>4. Marked'
    BY DEF IInv, TypeOK, SetFlash, Locked, Free, Marked
  <2>5. FetchedOnce'
    BY DEF IInv, TypeOK, SetFlash, Locked, Free, RequestData, Methods, FetchedOnce,
           Messages, Numbered, Marked
  <2> QED BY <2>1, <2>2, <2>3, <2>4, <2>5 DEF IInv
<1>7. ASSUME NEW p \in Proc, GetFlashes(p) PROVE IInv'
  <2> USE <1>7
  <2>0. Messages(sess[p]) \subseteq Nat
    BY DEF IInv, TypeOK, GetFlashes, Locked, Free, Messages, RequestData
  <2>1. TypeOK'
    BY <2>0 DEF IInv, TypeOK, GetFlashes, Locked
  <2>2. RequestData'
    BY DEF IInv, TypeOK, GetFlashes, Locked, Free, Messages, Methods, RequestData
  <2>3. Numbered'
    BY DEF IInv, TypeOK, GetFlashes, Locked, Free, Messages, RequestData, Methods,
           Numbered
  <2>4. Marked'
    BY DEF IInv, TypeOK, GetFlashes, Locked, Free, Messages, Marked
  <2>5. FetchedOnce'
    BY DEF IInv, TypeOK, GetFlashes, Locked, Free, Messages, RequestData, Methods,
           FetchedOnce, Numbered, Marked
  <2> QED BY <2>1, <2>2, <2>3, <2>4, <2>5 DEF IInv
<1>8. ASSUME NEW p \in Proc, DeleteFlash(p) PROVE IInv'
  <2> USE <1>8
  <2>1. TypeOK'
    BY DEF IInv, TypeOK, DeleteFlash, Locked, Free, RequestData, Methods
  <2>2. RequestData'
    BY DEF IInv, TypeOK, DeleteFlash, Locked, Free, Methods, RequestData
  <2>3. Numbered'
    BY DEF IInv, TypeOK, DeleteFlash, Locked, Free, RequestData, Methods, Numbered
  <2>4. Marked'
    BY DEF IInv, TypeOK, DeleteFlash, Locked, Free, Marked
  <2>5. FetchedOnce'
    BY DEF IInv, TypeOK, DeleteFlash, Locked, Free, RequestData, Methods,
           FetchedOnce, Messages, Numbered, Marked
  <2> QED BY <2>1, <2>2, <2>3, <2>4, <2>5 DEF IInv
<1>9. ASSUME NEW p \in Proc, ClearFlashes(p) PROVE IInv'
  <2> USE <1>9
  <2>1. TypeOK'
    BY DEF IInv, TypeOK, ClearFlashes, Locked, Free, RequestData, Methods
  <2>2. RequestData'
    BY DEF IInv, TypeOK, ClearFlashes, Locked, Free, Methods, RequestData
  <2>3. Numbered'
    BY DEF IInv, TypeOK, ClearFlashes, Locked, Free, RequestData, Methods, Numbered
  <2>4. Marked'
    BY DEF IInv, TypeOK, ClearFlashes, Locked, Free, Marked
  <2>5. FetchedOnce'
    BY DEF IInv, TypeOK, ClearFlashes, Locked, Free, RequestData, Methods,
           FetchedOnce, Messages, Numbered, Marked
  <2> QED BY <2>1, <2>2, <2>3, <2>4, <2>5 DEF IInv
<1>10. ASSUME NEW p \in Proc, Get(p) PROVE IInv'
  <2> USE <1>10
  <2>1. TypeOK'
    BY DEF IInv, TypeOK, Get, RequestData, Methods
  <2>2. RequestData'
    BY DEF IInv, TypeOK, Get, Methods, RequestData
  <2>3. Numbered' /\ Marked'
    BY DEF IInv, TypeOK, Get, Numbered, Marked
  <2>4. FetchedOnce'
    BY DEF IInv, TypeOK, Get, RequestData, Methods, FetchedOnce,
           Messages, Numbered, Marked
  <2> QED BY <2>1, <2>2, <2>3, <2>4 DEF IInv
<1>11. ASSUME NEW p \in Proc, PeekMissing(p) PROVE IInv'
  <2> USE <1>11
  <2>1. TypeOK'
    BY DEF IInv, TypeOK, PeekMissing, Locked, Free, RequestData, Methods
  <2>2. RequestData'
    BY DEF IInv, TypeOK, PeekMissing, Locked, Free, Methods, RequestData
  <2>3. Numbered' /\ Marked'
    BY DEF IInv, TypeOK, PeekMissing, Locked, Free, Numbered, Marked
  <2>4. FetchedOnce'
    BY DEF IInv, TypeOK, PeekMissing, Locked, Free, RequestData, Methods,
           FetchedOnce, Messages, Numbered, Marked
  <2> QED BY <2>1, <2>2, <2>3, <2>4 DEF IInv
<1>12. ASSUME NEW p \in Proc, PeekFound(p) PROVE IInv'
  <2> USE <1>12
  <2>1. TypeOK'
    BY DEF IInv, TypeOK, PeekFound, Free, RequestData, Methods
  <2>2. RequestData'
    BY DEF IInv, TypeOK, PeekFound, Free, Methods, RequestData
  <2>3. Numbered' /\ Marked'
    BY DEF IInv, TypeOK, PeekFound, Free, Numbered, Marked
  <2>4. FetchedOnce'
    BY DEF IInv, TypeOK, PeekFound, Free, RequestData, Methods, FetchedOnce,
           Messages, Numbered, Marked
  <2> QED BY <2>1, <2>2, <2>3, <2>4 DEF IInv
<1>13. ASSUME NEW p \in Proc, MarkFlash(p) PROVE IInv'
  <2> USE <1>13
  <2>0. flashes[sess[p]][key[p]] \in Nat
    BY DEF IInv, TypeOK, MarkFlash, RequestData
  <2>1. TypeOK'
    BY <2>0 DEF IInv, TypeOK, MarkFlash
  <2>2. RequestData'
    BY DEF IInv, TypeOK, MarkFlash, Methods, RequestData
  <2>3. Numbered'
    BY DEF IInv, TypeOK, MarkFlash, RequestData, Methods, Numbered
  <2>4. Marked'
    BY DEF IInv, TypeOK, MarkFlash, Marked
  <2>5. FetchedOnce'
    BY DEF IInv, TypeOK, MarkFlash, RequestData, Methods, FetchedOnce,
           Messages, Numbered, Marked
  <2> QED BY <2>1, <2>2, <2>3, <2>4, <2>5 DEF IInv
<1>15. ASSUME NEW p \in Proc, GetPanics(p) PROVE IInv'
  <2> USE <1>15
  <2>1. TypeOK'
    BY DEF IInv, TypeOK, GetPanics, RequestData, Methods
  <2>2. RequestData'
    BY DEF IInv, TypeOK, GetPanics, Methods, RequestData
  <2>3. Numbered' /\ Marked'
    BY DEF IInv, TypeOK, GetPanics, Numbered, Marked
  <2>4. FetchedOnce'
    BY DEF IInv, TypeOK, GetPanics, RequestData, Methods, FetchedOnce,
           Messages, Numbered, Marked
  <2> QED BY <2>1, <2>2, <2>3, <2>4 DEF IInv
<1>14. CASE UNCHANGED vars
  BY <1>14 DEF vars, IInv, TypeOK, RequestData, Numbered, Marked, FetchedOnce,
         Messages
<1> QED BY <1>1, <1>2, <1>3, <1>4, <1>5, <1>6, <1>7, <1>8, <1>9, <1>10, <1>11,
           <1>12, <1>13, <1>14, <1>15 DEF Next, Step

------------------------------------------------------------------------------
\* The inductive invariant holds in every reachable state.
THEOREM Invariance == Spec => []IInv
BY InitInv, StepInv, PTL DEF Spec

\* The state keeps its type: a message is marked only while it is there.
THEOREM TypeCorrect == Spec => []TypeOK
<1>1. IInv => TypeOK
  BY DEF IInv
<1> QED BY Invariance, <1>1, PTL

\* A flash message that was returned is not there for any request that begins
\* later.
THEOREM DisplayedOnce == Spec => []FetchedOnce
<1>1. IInv => FetchedOnce
  BY DEF IInv
<1> QED BY Invariance, <1>1, PTL

\* The GC takes no message that was not returned: such a message goes only with
\* a SetFlash of its key, a DeleteFlash or a ClearFlashes.
THEOREM NotLost == Spec => UnfetchedSurvives
<1> DEFINE Taken(x) ==
        \E p \in Proc : /\ sess[p] = x
                        /\ pc[p] \in {"SetFlash", "DeleteFlash", "ClearFlashes"}
                        /\ pc'[p] = "handler"
<1>1. ASSUME IInv, [Next]_vars, NEW x \in Sess, NEW k \in Key,
             flashes[x][k] # None, flashes[x][k] \notin fetched,
             flashes'[x][k] # flashes[x][k]
      PROVE  Taken(x)
  <2> USE <1>1, SessionAssumption
  <2>1. ASSUME NEW p \in Proc, RunFlashGC(p) PROVE FALSE
    BY <2>1 DEF RunFlashGC, Collected, IInv, TypeOK, RequestData, Marked
  <2>2. ASSUME NEW p \in Proc, SetFlash(p) \/ DeleteFlash(p) \/ ClearFlashes(p)
        PROVE  Taken(x)
    <3>1. sess[p] = x
      BY <2>2 DEF SetFlash, DeleteFlash, ClearFlashes, Locked, Free, IInv, TypeOK
    <3>2. /\ pc[p] \in {"SetFlash", "DeleteFlash", "ClearFlashes"}
          /\ pc'[p] = "handler"
      BY <2>2 DEF SetFlash, DeleteFlash, ClearFlashes, Locked, Free, IInv, TypeOK
    <3> QED BY <3>1, <3>2
  <2>3. ASSUME NEW p \in Proc,
               \/ \E y \in Sess : Start(p, y)
               \/ \E m \in Methods, j \in Key : Invoke(p, m, j)
               \/ Read(p) \/ Return(p) \/ GetFlashes(p) \/ Get(p)
               \/ GetPanics(p) \/ PeekMissing(p) \/ PeekFound(p) \/ MarkFlash(p)
        PROVE  FALSE
    BY <2>3 DEF Start, Invoke, Read, Return, GetFlashes, Get, GetPanics,
                PeekMissing,
                PeekFound, MarkFlash
  <2>4. ~UNCHANGED vars
    BY DEF vars
  <2> QED BY <2>1, <2>2, <2>3, <2>4 DEF Next, Step
<1>2. IInv /\ [Next]_vars =>
        [\A x \in Sess, k \in Key :
            LET m == flashes[x][k]
            IN m # None /\ m \notin fetched /\ flashes'[x][k] # m =>
                  \E p \in Proc :
                      /\ sess[p] = x
                      /\ pc[p] \in {"SetFlash", "DeleteFlash", "ClearFlashes"}
                      /\ pc'[p] = "handler"]_vars
  BY <1>1
<1> QED BY Invariance, <1>2, PTL DEF Spec, UnfetchedSurvives
==============================================================================
