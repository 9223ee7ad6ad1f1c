----------------------------- MODULE DelayBuffer -----------------------------
(***************************************************************************)
(* The delay of a continuous signal, delay(expr, DelayTime, MaxDelayTime): *)
(* every evaluation of the equations stores the present value and reads    *)
(* the value of DelayTime ago by linear interpolation.                     *)
(*                                                                         *)
(* Evaluations follow the solver: time goes forward, stands still, and     *)
(* goes back when a step is rejected or an event is located in it, at most *)
(* to where the step began, and then what was stored for later times is    *)
(* void.  `hist' is the reference: the signal as the evaluations that      *)
(* still count have seen it, complete, where the ring drops every fourth   *)
(* of its older entries when it is full.                                   *)
(***************************************************************************)
EXTENDS DelayRing

CONSTANTS
    Values,     \* values of the signal
    Starts,     \* when a run may begin
    Horizon,    \* bound on time
    Forward,    \* bound on how far an evaluation goes beyond the latest one,
    Span,       \* and beyond the beginning of the step
    Delays,     \* values of DelayTime, up to MaxDelayTime
    Reach       \* how far before the start the first entry lies (1.0e6)

(* The first entry lies before every instant that is read (it is a million *)
(* units of time back).                                                    *)
DelayAssumption ==
    /\ Horizon \in Nat /\ Starts \subseteq 0 .. Horizon
    /\ Delays \subseteq Nat /\ Reach \in Nat /\ Forward \in Nat /\ Span \in Nat
    /\ \A s, t \in Starts, d, e \in Delays : s - d - Reach < t - e

VARIABLES
    del,         \* the ring
    delayID,     \* it has been initialised
    hist,        \* history: the signal the ring was given, as far as it counts
    start,       \* history: when this run began, or NotBegun
    reached,     \* where the step began that the solver may go back in
    read         \* what the last evaluation interpolated between

vars == <<del, delayID, hist, start, reached, read>>

Times    == 0 .. Horizon
NotBegun == -1
Instants == Times \cup {t - d : t \in Times, d \in Delays}
                  \cup {t - d - Reach : t \in Times, d \in Delays}

(* No value was read: before the first evaluation, and when it failed. *)
NoRead == [ok |-> FALSE]

TypeOK ==
    /\ del \in [x : [Positions -> Instants], y : [Positions -> Values],
                first : Positions, add : Positions, old : Positions]
    /\ delayID \in BOOLEAN
    /\ hist \in SUBSET (Instants \X Values)
    /\ start \in Times \cup {NotBegun}
    /\ reached \in Times
    /\ \/ read = NoRead
       \/ read \in [ok : {TRUE}, x : Instants,
                    low : Instants \X Values, up : Instants \X Values]

Init ==
    /\ \E v \in Values : del = NewBuffer(v)
    /\ delayID = FALSE
    /\ hist = {}
    /\ start = NotBegun
    /\ reached = 0
    /\ read = NoRead

----------------------------------------------------------------------------
(* delayWrite2.                                                            *)

(* The decimation looks at the older 70 % of the entries ...               *)
Older == (7 * nx) \div 10

(* ... and moves them up to make room: the j-th entry from the newest of   *)
(* them goes to place Slot(j), where every fourth finds its predecessor    *)
(* and replaces it.                                                        *)
Slot(j) == j - ((j + 1) \div 4)
Mover(p) == Max({j \in 0 .. Older : Slot(j) = p})

(* A mutant of Decimated: the oldest entries are the ones that go. *)
DecimatedOldest(d) == [d EXCEPT !.first = Ahead(@, Older - Slot(Older))]

Decimated(d) ==
    LET top == Ahead(d.first, Older)
        Moved(f) == [i \in Positions |->
                        IF Distance(i, top) > Slot(Older) THEN f[i]
                        ELSE f[Back(top, Mover(Distance(i, top)))]]
    IN  [d EXCEPT !.x = Moved(@), !.y = Moved(@), !.first = Back(top, Slot(Older))]

Write(d, t, u) ==
    LET room == [FutureDropped(d, t) EXCEPT !.add = After(@)]
    IN  Stored(IF room.add = d.first THEN Decimated(room) ELSE room, t, u)

(* The same in the reference. *)
Heard(h, t, u) == {s \in h : s[1] < t} \cup {<<t, u>>}

----------------------------------------------------------------------------
(* delayRead2.                                                             *)

(* Mutant of Look: the search backward stops one entry too early. *)
LookShort(d, x) ==
    IF x > d.x[d.add] THEN d.add
    ELSE IF x > d.x[d.old] THEN Ahead(d.old, Min({k \in Positions : x <= d.x[Ahead(d.old, k)]}))
    ELSE Back(d.old, Min({k \in Positions : x > d.x[Back(d.old, k)] \/ Back(d.old, k) = d.first}))

(* Where the search for x ends: at the upper of the two entries to         *)
(* interpolate between.  It starts from where the last one ended.          *)
Look(d, x) ==
    IF x > d.x[d.add] THEN d.add
    ELSE IF x > d.x[d.old] THEN Ahead(d.old, Min({k \in Positions : x <= d.x[Ahead(d.old, k)]}))
    ELSE After(Back(d.old, Min({k \in Positions :
                            x > d.x[Back(d.old, k)] \/ Back(d.old, k) = d.first})))

----------------------------------------------------------------------------
(* The run.                                                                *)

(* The instant to read. *)
Delayed(t, delay)  == t - delay

(* DYNdelay: the first evaluation initialises the ring, every evaluation   *)
(* writes and reads; a step may end, and the next one begin, at any.  A    *)
(* read from before the oldest entry fails the evaluation (DymosimErr does *)
(* not return), with the value written.                                    *)
Evaluate(t, u, delay) ==
    LET ready == IF delayID THEN del ELSE Initialised(del, t - delay - Reach, t, u)
        new   == Write(ready, t, u)
        x     == Delayed(t, delay)
        old   == Look(new, x)
    IN  /\ IF start = NotBegun THEN t \in Starts
           ELSE reached <= t /\ t <= reached + Span /\ t - del.x[del.add] <= Forward
        /\ reached' \in IF start = NotBegun THEN {t} ELSE {reached, t}
        /\ delayID' = TRUE
        /\ start' = IF start = NotBegun THEN t ELSE start
        /\ hist' = Heard(IF delayID THEN hist ELSE {<<t - delay - Reach, u>>}, t, u)
        /\ IF x < new.x[new.first]
           THEN del' = new /\ read' = NoRead
           ELSE /\ del' = [new EXCEPT !.old = old]
                /\ read' = [ok |-> TRUE, x |-> x,
                            low |-> Entry(new, Before(old)), up |-> Entry(new, old)]

(* fmi2Reset puts the variables back, but not the ring: the next run goes  *)
(* on with it, from an earlier instant.                                    *)
Reset ==
    /\ start # NotBegun
    /\ start' = NotBegun
    /\ reached' = 0
    /\ read' = NoRead
    /\ UNCHANGED <<del, delayID, hist>>

Next ==
    \/ \E t \in Times, u \in Values, delay \in Delays : Evaluate(t, u, delay)
    \/ Reset

Spec == Init /\ [][Next]_vars

----------------------------------------------------------------------------
(* What a delay promises.                                                  *)

(* The entries held are in the order of time, from `first' to `add', or    *)
(* the searches of delayRead2 end anywhere.                                *)
Ordered ==
    delayID => \A i \in Live(del) \ {del.add} : del.x[i] < del.x[After(i)]

(* The ring holds nothing but the signal it was given, and the oldest and  *)
(* the newest value of it however often it was decimated: an entry of a    *)
(* rejected step would delay a value that never was.                       *)
HoldsHistory ==
    start # NotBegun =>
        /\ \A i \in Live(del) : Entry(del, i) \in hist
        /\ \A s \in hist : del.x[del.first] <= s[1] /\ s[1] <= del.x[del.add]

(* What is read lies between two neighbouring values of the signal as far  *)
(* as they are held, even when the search started from a position that     *)
(* was dropped, moved or written anew since the last one.                  *)
ReadBrackets ==
    read.ok => /\ read.low[1] < read.x /\ read.x <= read.up[1]
               /\ {read.low, read.up} \subseteq hist
               /\ \A i \in Live(del) : ~(read.low[1] < del.x[i] /\ del.x[i] < read.up[1])

(* No read fails: the first entry is kept and lies before all delays. *)
NeverTooOld == start # NotBegun => read.ok
=============================================================================
