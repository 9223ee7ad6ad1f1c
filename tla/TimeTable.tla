------------------------------ MODULE TimeTable ------------------------------
(***************************************************************************)
(* A table that is interpolated over time (dymTableTimeIni2 and            *)
(* dymTableTimeIpo2): at events it moves to the interval the time is in    *)
(* and registers the end of it as the next time event; between events it   *)
(* interpolates in that interval, wherever the time is.                    *)
(*                                                                         *)
(* A unit of time is the tolerance with which abscissas are compared, a    *)
(* millionth of them in the code; abscissas are many units apart, or       *)
(* agree.  Values are abstracted to the piece they are interpolated on.    *)
(***************************************************************************)
EXTENDS Integers, FiniteSetsExt, Sequences

CONSTANTS
    Tables,       \* abscissas of the tables
    StartTimes,
    Exceptions,   \* tables the code does not handle: one whose last abscissa is
                  \* 0, and one of a single entry that starts later
    GoesBack,     \* may the master go back to a state of another interval?
    Horizon,      \* of time (a bound)
    Never         \* 1e100, later than any time

(* A table ends before Never, whenever it starts.                          *)
TableAssumption ==
    /\ Horizon \in Nat /\ Never \in Nat /\ Horizon < Never
    /\ StartTimes \subseteq Int /\ \A s \in StartTimes : s <= Never
    /\ \A v \in Tables :
          /\ v \in Seq(Int) /\ v # <<>>
          /\ \A i, j \in 1 .. Len(v) : i <= j => v[i] <= v[j]
          /\ Horizon + (v[Len(v)] - v[1]) < Never
          /\ \A s \in StartTimes : s + v[Len(v)] <= Never
    /\ {Exceptions, GoesBack} \subseteq BOOLEAN

VARIABLES
    u,              \* the abscissas of the table
    expoType,       \* beyond them: 0 constant, 1 linear, 2 periodic
    startTime,
    last,           \* the interval
    ipoPoint,       \* 1 before the start, 2 and 3 before and after a table of
                    \* expoType 0, else 0
    t_offset,
    time,
    NextTimeEvent,
    saved           \* an FMU state the master holds, or {}

table == <<u, expoType, startTime>>
vars  == <<table, last, ipoPoint, t_offset, time, NextTimeEvent, saved>>

nt1  == Len(u)
tmin == u[1]
tmax == u[nt1]
T    == tmax - tmin

TypeOK ==
    /\ u \in Tables /\ expoType \in 0 .. 2 /\ startTime \in StartTimes
    /\ last \in 1 .. nt1
    /\ ipoPoint \in 0 .. 3
    /\ t_offset \in Int
    /\ time \in 0 .. Horizon
    /\ NextTimeEvent \in 0 .. Never

(* timeLimit: a time that counts as t already. *)
Limit(t) == IF t = 0 THEN 0 ELSE t - 1

(* The end of the i-th interval, for the search; a little more is allowed  *)
(* if the table is periodic.                                               *)
End(i) == Limit(u[i + 1]) - (IF expoType = 2 /\ T > 0 THEN 1 ELSE 0)

(* Mutant of Interval: one interval per event. *)
IntervalNext(from, t) == IF from < nt1 - 1 /\ t >= End(from) THEN from + 1 ELSE from

(* The search goes on from where the last one ended. *)
Interval(from, t) ==
    CHOOSE i \in from .. nt1 :
        /\ i >= nt1 - 1 \/ t < End(i)
        /\ \A j \in from .. i - 1 : j < nt1 - 1 /\ t >= End(j)

(* What is registered in the interval i, with the table at t. *)
EventIn(i, t, offset) ==
    CASE expoType = 0 /\ t < Limit(tmin) -> offset + tmin
      [] expoType = 0 /\ t > Limit(tmax) -> Never
      [] expoType = 1 /\ t > Limit(tmax) -> Never
      [] OTHER -> offset + u[i + 1]

PointIn(t) ==
    CASE expoType = 0 /\ t < Limit(tmin) -> 2
      [] expoType = 0 /\ ~(t < Limit(tmin)) /\ t > Limit(tmax) -> 3
      [] OTHER -> 0

BeforeStart(t) == t < Limit(startTime)

----------------------------------------------------------------------------
(* dymTableTimeIni2, at the initial time.  The abscissas of a periodic     *)
(* table do not all agree: dymTableTimeIpo2 would look for its period for  *)
(* ever.                                                                   *)
Periods == IF T > 0 /\ expoType = 2 THEN (time - startTime - tmin) \div T ELSE 0

Init ==
    /\ u \in Tables /\ expoType \in 0 .. 2 /\ startTime \in StartTimes
    /\ Exceptions \/ IF nt1 = 1 THEN ~BeforeStart(0) ELSE tmax # 0 \/ expoType = 2
    /\ expoType = 2 => T > 0 \/ nt1 = 1
    /\ time = 0 /\ saved = {}
    /\ t_offset = startTime + Periods * T
    /\ IF BeforeStart(0) \/ nt1 = 1
       THEN /\ last = 1
            /\ ipoPoint = IF BeforeStart(0) THEN 1 ELSE 0
            /\ NextTimeEvent = IF BeforeStart(0) THEN startTime ELSE Never
       ELSE /\ last = Interval(1, time - t_offset)
            /\ ipoPoint = PointIn(time - t_offset)
            /\ NextTimeEvent = EventIn(last, time - t_offset, t_offset)

----------------------------------------------------------------------------
(* dymTableTimeIpo2 at an event: the period, ... *)
NextPeriod(t) == expoType = 2 /\ t - t_offset >= Limit(tmax)

Offset(t) ==
    IF NextPeriod(t)
    THEN LET iv == (t - startTime - tmin) \div T
         IN  startTime + Min({n \in iv - 1 .. iv + 1 : t - (startTime + n * T) < Limit(tmax)}) * T
    ELSE t_offset

(* ... the interval in it, ... *)
From(t) == IF NextPeriod(t) THEN 1 ELSE last

(* ... and its end. *)
Event(t) ==
    /\ time <= t /\ t <= NextTimeEvent
    /\ time' = t
    /\ IF BeforeStart(t)
       THEN NextTimeEvent' = startTime /\ UNCHANGED <<last, ipoPoint, t_offset>>
       ELSE IF nt1 = 1
       THEN NextTimeEvent' = Never /\ UNCHANGED <<last, ipoPoint, t_offset>>
       ELSE /\ t_offset' = Offset(t)
            /\ last' = Interval(From(t), t - t_offset')
            /\ ipoPoint' = PointIn(t - t_offset')
            /\ NextTimeEvent' = EventIn(last', t - t_offset', t_offset')
    /\ UNCHANGED <<table, saved>>

(* The instance is saved with its time and next time event, and without    *)
(* the tables, which are global.                                           *)
GetFMUstate ==
    /\ saved' = {[time |-> time, NextTimeEvent |-> NextTimeEvent,
                  at |-> <<last, ipoPoint, t_offset>>]}
    /\ UNCHANGED <<table, last, ipoPoint, t_offset, time, NextTimeEvent>>

SetFMUstate ==
    /\ \E s \in saved :
          /\ GoesBack \/ s.at = <<last, ipoPoint, t_offset>>
          /\ time' = s.time /\ NextTimeEvent' = s.NextTimeEvent
    /\ UNCHANGED <<table, last, ipoPoint, t_offset, saved>>

Next == GetFMUstate \/ SetFMUstate \/ \E t \in 0 .. Horizon : Event(t)

Spec == Init /\ [][Next]_vars

----------------------------------------------------------------------------
(* A value of the table, or the line of an interval with the table at t;   *)
(* the line of an interval of no length is the value at its end.           *)
Line(i, t) == IF u[i] >= Limit(u[i + 1]) THEN <<"value", i + 1>> ELSE <<"line", i, t>>

(* What the table is evaluated on at the time t. *)
Used(t) ==
    CASE ipoPoint = 1 -> <<"before">>
      [] ipoPoint # 1 /\ (ipoPoint = 2 \/ nt1 = 1) -> <<"value", 1>>
      [] ipoPoint = 3 /\ nt1 > 1 -> <<"value", nt1>>
      [] OTHER -> Line(last, t - t_offset)

(* What it is to be evaluated on: nothing before the start, then the       *)
(* interval the table's time is in, or the nearest one.                    *)
Started(t) ==
    LET tt == IF expoType = 2 /\ T > 0 THEN tmin + ((t - startTime - tmin) % T) ELSE t - startTime
    IN  CASE nt1 = 1 \/ (expoType = 0 /\ tt < tmin) -> <<"value", 1>>
          [] nt1 > 1 /\ expoType = 0 /\ tt >= tmax -> <<"value", nt1>>
          [] OTHER -> Line(Max({1} \cup {i \in 1 .. nt1 - 1 : u[i] <= tt}), tt)

(* A time between two periods is in both.                                  *)
Near(t) ==
    LET around == t - 2 .. t + 2
        ends   == {s \in around : expoType = 2 /\ T > 0 /\ (s - startTime - tmin) % T = 0}
    IN  {Started(s) : s \in IF t < startTime - 2 THEN {} ELSE around}
          \cup {<<"before">> : s \in {s \in around : s < startTime}}
          \cup {Line(nt1 - 1, tmax) : s \in ends}

(* From an event to the next one, wherever the evaluations are made, they  *)
(* are on the right piece of the table, but for the tolerances around its  *)
(* ends; and the next event is ahead.                                      *)
OnPiece(t) ==
    \E p \in Near(t) :
        /\ p[1] = Used(t)[1]
        /\ p[1] # "before" => p[2] = Used(t)[2]
        /\ p[1] = "line" => p[3] - Used(t)[3] \in -2 .. 2

TableInPlace ==
    /\ NextTimeEvent > time
    /\ \A t \in time .. Horizon : t < NextTimeEvent => OnPiece(t)
=============================================================================
