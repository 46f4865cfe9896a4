------------------------------ MODULE LifeTime -------------------------------
(***************************************************************************)
(* LifeTime of lifetime.go: the expiration date of a session and the timer *)
(* that enforces it.  The date is what the databases store; the timer is    *)
(* what actually destroys the session.  Dates are numbers, 0 is the zero    *)
(* time.Time, and durations are counted in ticks of the same clock.         *)
(***************************************************************************)
EXTENDS Integers

\* The timer field: nil, a running time.AfterFunc, or one that has fired.
TimerState == {"nil", "armed", "fired"}

\* time: the embedded time.Time; at: when the timer is due.
LifeTimes == [time : Nat, timer : TimerState, at : Nat]

\* A LifeTime as a database returns it: a date and no timer.
Stored(t) == [time |-> t, timer |-> "nil", at |-> 0]

\* HasExpired: strictly before now, and never for the zero time.
HasExpired(t, now) == t # 0 /\ t < now

\* Begin: a life of d from now on; nothing happens when d <= 0.
Begin(lt, d, now) ==
    IF d <= 0 THEN lt
    ELSE [time |-> now + d, timer |-> "armed", at |-> now + d]

\* Revive: continues a stored life, if its date is still to come.
Revive(lt, now) ==
    IF lt.time # 0 /\ lt.time > now
    THEN [time |-> lt.time, timer |-> "armed", at |-> lt.time]
    ELSE lt

\* Mutant: Shift makes the timer due at once instead of d from now.
ShiftAtOnce(lt, d, now) ==
    IF d > 0 /\ lt.timer # "nil"
    THEN [time |-> lt.time, timer |-> "armed", at |-> now]
    ELSE lt

\* Mutant: Shift stops the timer and does not start it again.
ShiftStops(lt, d, now) ==
    IF d > 0 /\ lt.timer # "nil" THEN [lt EXCEPT !.timer = "nil"] ELSE lt

\* Shift: time.Timer.Reset, which restarts the timer even after it has fired.
\* The stored date stays as it is.
Shift(lt, d, now) ==
    IF d > 0 /\ lt.timer # "nil"
    THEN [time |-> lt.time, timer |-> "armed", at |-> now + d]
    ELSE lt
==============================================================================
