---------------------------- MODULE DiscreteDelay ----------------------------
(***************************************************************************)
(* The delay of a discrete signal, DYNdelayDC: the ring holds the instants *)
(* at which the signal changed, and `old' is the change that is now being  *)
(* answered.  Changes are written, and `old' moves, at events only.  The   *)
(* delayed changes are events themselves: two crossing functions tell the  *)
(* solver that the change after `old' was due, so that it stops.           *)
(* Time is a grid whose unit is the tolerance within which it stops.       *)
(***************************************************************************)
EXTENDS DelayRing

CONSTANTS
    Values,     \* values of the signal
    Horizon,    \* bound on time
    Delay,      \* DelayTime
    Reach       \* how far before the start the first entry lies (1.0e6)

DelayAssumption ==
    /\ Horizon \in Nat /\ Delay \in Nat \ {0} /\ Reach \in Nat

VARIABLES
    del,           \* the ring
    isAllocated,   \* it has been initialised
    now,           \* the time of the latest evaluation
    expr,          \* the signal
    hist,          \* history: its changes, the first at the initialisation
    failed         \* a look-up reached beyond the oldest change

vars == <<del, isAllocated, now, expr, hist, failed>>

Instants == -(Delay + Reach) .. Horizon

TypeOK ==
    /\ del \in [x : [Positions -> Instants], y : [Positions -> Values],
                first : Positions, add : Positions, old : Positions]
    /\ isAllocated \in BOOLEAN
    /\ now \in 0 .. Horizon
    /\ expr \in Values
    /\ hist \in SUBSET (Instants \X Values)
    /\ failed \in BOOLEAN

Init ==
    /\ \E v \in Values : del = NewBuffer(v) /\ expr = v
    /\ isAllocated = FALSE
    /\ now = 0
    /\ hist = {}
    /\ failed = FALSE

----------------------------------------------------------------------------
(* delayDWrite2: a change at t replaces what was written for t already; a  *)
(* full ring forgets its oldest change.                                    *)
Write(d, t, u) ==
    LET past == FutureDropped(d, t)
        room == [past EXCEPT !.add = After(@)]
    IN  IF past.y[past.add] = u THEN past
        ELSE Stored(IF room.add = room.first THEN [room EXCEPT !.first = After(@)] ELSE room, t, u)

(* delayDnext2 for the instant x: `old' moves to the last change at or     *)
(* before it.  The forward search looks one entry ahead.                   *)
TooOld(d, x) == x < d.x[d.add] /\ x < d.x[d.first]

(* Mutant of Next2: a change that is due at x itself is left. *)
Next2Late(d, x) ==
    IF x >= d.x[d.add] THEN d.add
    ELSE IF x >= d.x[d.old] THEN Ahead(d.old, Min({k \in Positions : x <= d.x[Ahead(d.old, k + 1)]}))
    ELSE Back(d.old, Min({k \in Positions \ {0} : x >= d.x[Back(d.old, k)]}))

Next2(d, x) ==
    IF x >= d.x[d.add] THEN d.add
    ELSE IF x >= d.x[d.old] THEN Ahead(d.old, Min({k \in Positions : x < d.x[Ahead(d.old, k + 1)]}))
    ELSE Back(d.old, Min({k \in Positions \ {0} : x >= d.x[Back(d.old, k)]}))

(* Mutant of NotDue: the newest change is watched for, not the next one. *)
NotDueNewest(d, t) == d.old = d.add \/ t - Delay <= d.x[d.add]

(* The solver's crossing function qz2[1], in which 1e-16 is added to the   *)
(* time that is left: it is positive until the change after `old' was due, *)
(* the instant at which it is due included.                                *)
NotDue(d, t) == d.old = d.add \/ t - Delay <= d.x[After(d.old)]

(* The entry has been initialised: both indices at the first position. *)
Ready(t, u) ==
    IF isAllocated THEN del
    ELSE [Initialised(del, t - Delay - Reach, t, u) EXCEPT !.add = 0, !.old = 0]

(* delayDCFunction2 at an event. *)
Event(u) ==
    LET d == Write(Ready(now, u), now, u)
        x == now - Delay
    IN  /\ ~failed
        /\ isAllocated' = TRUE
        /\ expr' = u
        /\ hist' = {s \in hist : s[1] < now} \cup {<<IF isAllocated THEN now ELSE now - Delay - Reach, u>>}
        /\ failed' = TooOld(d, x)
        /\ del' = IF TooOld(d, x) THEN d ELSE [d EXCEPT !.old = Next2(d, x)]
        /\ UNCHANGED now

(* The solver goes on to t; it stops where a crossing function changes     *)
(* sign, the instant after a change was due, and an event there comes      *)
(* before it goes on.                                                      *)
GoOn(t) ==
    /\ isAllocated
    /\ ~failed
    /\ t > now
    /\ NotDue(del, now)
    /\ \A s \in now .. t - 1 : NotDue(del, s)
    /\ now' = t
    /\ UNCHANGED <<del, isAllocated, expr, hist, failed>>

Next ==
    \/ \E u \in Values : Event(u)
    \/ \E t \in 1 .. Horizon : GoOn(t)

Spec == Init /\ [][Next]_vars

----------------------------------------------------------------------------
(* The value of the signal at an instant, by its history. *)
ValueAt(x) ==
    LET past == {s \in hist : s[1] <= x}
    IN  (CHOOSE s \in past : \A r \in past : r[1] <= s[1])[2]

(* No change after the one now answered is due at t. *)
NoneDue(d, t) == d.old = d.add \/ t - Delay < d.x[After(d.old)]

(* While the solver goes on, what is answered is the signal of Delay ago:  *)
(* no change is answered early, too late or not at all, although only the  *)
(* change after `old' is watched for, of as many as the ring holds.  The   *)
(* one exception is the instant at which a change is due: the value before *)
(* it is still answered there, unless some event comes at that instant.    *)
AnswersDelayed ==
    isAllocated /\ ~failed /\ NotDue(del, now) =>
        LET x == now - Delay
        IN  del.y[del.old] = ValueAt(IF NoneDue(del, now) THEN x ELSE x - 1)

(* The change now answered is still held: a full ring forgets its oldest   *)
(* change, and with fewer changes in a Delay than the ring has entries     *)
(* that is one answered long ago (else the evaluation fails, "Buffersize   *)
(* too small or too many changes").                                        *)
NeverTooOld == ~failed

(* After an event no change is due, not at its own instant either: what it *)
(* answers is the signal of Delay ago, and the iteration of events ends.   *)
DueAnswered    == \A u \in Values : Event(u) => failed' \/ NoneDue(del', now')
NothingLeftDue == [][DueAnswered]_vars
=============================================================================
