------------------------------ MODULE TimeEvents ------------------------------
(***************************************************************************)
(* The time events of samplers: at each event every sampler counts its     *)
(* instants up to the present time and registers the next one, and the     *)
(* registered instants are merged to one time event (registerTimeEventNew):*)
(* instants within an accuracy of each other are one event.                *)
(*                                                                         *)
(* Instants that agree but for rounding are a few units apart, where one   *)
(* sampler's are many.  State events come at any time.                     *)
(***************************************************************************)
EXTENDS Integers, FiniteSets

CONSTANTS
    SamplerCount,
    Clocks,         \* what a sampler may be: start, interval, maxVal, phase
    Accuracy,       \* of time events: 6 eps times the size of the times
    SampleAccuracy, \* of samplers: 5e-14 times the same, some more
    MaxIter,        \* iterations of an event (a bound)
    Horizon,        \* of time (a bound)
    Never           \* 1e100, later than any time

(* In the order they are evaluated in. *)
Samplers == 1 .. SamplerCount

(* An instant that is registered is at most a period after the present     *)
(* time, or after the start.  Instants are a unit apart or more, so the    *)
(* one of the last bound is beyond the horizon.                            *)
TimeEventsAssumption ==
    /\ SamplerCount \in Nat \ {0} /\ MaxIter \in Nat
    /\ Accuracy \in Nat /\ SampleAccuracy \in Nat /\ Horizon \in Nat /\ Never \in Nat
    /\ \A c \in Clocks :
          /\ c.start \in Int /\ c.phase \in Int
          /\ c.interval \in Nat /\ c.interval > Accuracy + SampleAccuracy
          /\ c.maxVal \in Nat \ {0}
          /\ Horizon + SampleAccuracy + c.maxVal * c.interval + Accuracy < Never
          /\ c.start + c.maxVal * c.interval + Accuracy < Never
          /\ Horizon + SampleAccuracy - c.start + 2 < Never

VARIABLES
    clock,             \* the samplers
    now,
    inEvent,
    Iter,
    StartNextTimeEvent, NextTimeEvent,    \* the next time event is in between
    NextSampleTime, NextSampleTimeNew,    \* number of the next instant, from 1
    ticks              \* history: how often each sampler was true

vars == <<clock, now, inEvent, Iter, StartNextTimeEvent, NextTimeEvent,
          NextSampleTime, NextSampleTimeNew, ticks>>

TypeOK ==
    /\ clock \in [Samplers -> Clocks]
    /\ now \in 0 .. Horizon
    /\ inEvent \in BOOLEAN /\ Iter \in 0 .. MaxIter
    /\ StartNextTimeEvent \in 0 .. Never /\ NextTimeEvent \in StartNextTimeEvent .. Never
    /\ NextSampleTime \in [Samplers -> 1 .. Never]
    /\ NextSampleTimeNew \in [Samplers -> 1 .. Never]
    /\ ticks \in [Samplers -> Nat]

Greater(a, b) == IF a > b THEN a ELSE b

(* The n-th instant of a sampler's clock, and the instants it is true at:  *)
(* every maxVal-th of them.                                                *)
Instant(c, n) == c.start + (n - 1) * c.interval
Offset(c)     == c.maxVal - 1 - c.phase

(* findCounter: the first instant that is not before t. *)
FindCounter(t, c) ==
    CHOOSE n \in 1 .. Never : Instant(c, n) >= t /\ (n > 1 => Instant(c, n - 1) < t)

(* The sections of the initialisation count from the start; the first      *)
(* event is at the initial time.                                           *)
Init ==
    /\ clock \in [Samplers -> Clocks]
    /\ now = 0 /\ inEvent = FALSE /\ Iter = 0
    /\ StartNextTimeEvent = 0 /\ NextTimeEvent = 0
    /\ NextSampleTime = [s \in Samplers |-> FindCounter(Greater(0, clock[s].start), clock[s])]
    /\ NextSampleTimeNew = NextSampleTime
    /\ ticks = [s \in Samplers |-> 0]

----------------------------------------------------------------------------
(* Mutant of Registered: an instant that is too late for the interval      *)
(* extends it.                                                             *)
RegisteredLast(i, at) ==
    LET first == IF i.next >= Never THEN i.next ELSE i.first
    IN  IF at >= i.next + Accuracy THEN [i EXCEPT !.first = first]
        ELSE IF at < first
        THEN [first |-> at, next |-> IF at + Accuracy < i.next THEN at ELSE i.next]
        ELSE [first |-> first, next |-> Greater(at, i.next)]

(* registerTimeEventNew, on the interval i in which the next event is. *)
Registered(i, at) ==
    LET first == IF i.next >= Never THEN i.next ELSE i.first
    IN  IF at >= i.next + Accuracy THEN [i EXCEPT !.first = first]
        ELSE IF at < first
        THEN [first |-> at, next |-> IF at + Accuracy < i.next THEN at ELSE i.next]
        ELSE [first |-> first,
              next |-> IF at <= first + Accuracy /\ at > i.next THEN at ELSE i.next]

(* The interval after all samplers have registered an instant, when none   *)
(* is registered before.                                                   *)
Merged(start, at) ==
    LET merged[s \in 0 .. SamplerCount] ==
            IF s = 0 THEN [first |-> start, next |-> Never]
            ELSE Registered(merged[s - 1], at[s])
    IN  merged[SamplerCount]

(* The instants up to t are counted. *)
Counted(c, from, t) ==
    CHOOSE n \in from .. Never :
        /\ Instant(c, n) > t + SampleAccuracy
        /\ n > from => Instant(c, n - 1) <= t + SampleAccuracy

(* The last instant, from 0, at which the sampler is true, when the n-th   *)
(* is the next of its clock (sampleFunctionM3; with maxVal = 1 and phase   *)
(* 0, sampleFunctionM).                                                    *)
Passed(c, n) == ((n - 2 - Offset(c)) \div c.maxVal) * c.maxVal + Offset(c)

IsTrue(c, from, n) == n > from /\ Passed(c, n) = n - 2 /\ Passed(c, n) >= Offset(c)

Next(c, n) == c.start + (Passed(c, n) + c.maxVal) * c.interval

(* One iteration: what was registered is forgotten, and all samplers are   *)
(* evaluated.                                                              *)
Iterate ==
    LET new == [s \in Samplers |-> Counted(clock[s], NextSampleTime[s], now)]
        interval == Merged(StartNextTimeEvent, [s \in Samplers |-> Next(clock[s], new[s])])
    IN  /\ inEvent /\ Iter < MaxIter
        /\ Iter' = Iter + 1
        /\ NextSampleTimeNew' = new
        /\ StartNextTimeEvent' = interval.first
        /\ NextTimeEvent' = interval.next
        /\ ticks' = [s \in Samplers |->
              IF Iter' = 1 /\ IsTrue(clock[s], NextSampleTime[s], new[s])
              THEN ticks[s] + 1 ELSE ticks[s]]
        /\ UNCHANGED <<clock, now, inEvent, NextSampleTime>>

(* An event: the next time event, a state event before it, or one asked    *)
(* for at the present time.                                                *)
Event(t) ==
    /\ ~inEvent
    /\ now <= t /\ t <= NextTimeEvent
    /\ now' = t /\ inEvent' = TRUE /\ Iter' = 0
    /\ UNCHANGED <<clock, StartNextTimeEvent, NextTimeEvent, NextSampleTime,
                   NextSampleTimeNew, ticks>>

(* The iterations have ended. *)
EndEvent ==
    /\ inEvent /\ Iter > 0
    /\ inEvent' = FALSE
    /\ NextSampleTime' = NextSampleTimeNew
    /\ UNCHANGED <<clock, now, Iter, StartNextTimeEvent, NextTimeEvent,
                   NextSampleTimeNew, ticks>>

Step == Iterate \/ EndEvent \/ \E t \in 0 .. Horizon : Event(t)

Spec == Init /\ [][Step]_vars

----------------------------------------------------------------------------
(* The instants at which a sampler is to be true, up to t: from its start  *)
(* or its phase on, a period of maxVal intervals apart.                    *)
Due(c, t) ==
    LET first == c.start + Offset(c) * c.interval
    IN  {at \in 0 .. t : /\ at >= c.start /\ at >= first
                        /\ (at - first) % (c.maxVal * c.interval) = 0}

(* Whatever events come between: a sampler is true once for each of its    *)
(* instants, none is passed by for more than the accuracy, and time gets   *)
(* on from every event.                                                    *)
SampledInTime ==
    ~inEvent /\ Iter > 0 =>
        /\ NextTimeEvent > now
        /\ \A s \in Samplers :
              /\ ticks[s] = Cardinality(Due(clock[s], now + SampleAccuracy))
              /\ Due(clock[s], NextTimeEvent - Accuracy - 1) \subseteq Due(clock[s], now + SampleAccuracy)
=============================================================================
