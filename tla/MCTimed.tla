------------------------------- MODULE MCTimed -------------------------------
(***************************************************************************)
(* What the run-time library keeps over time, for TLC: delays, samplers    *)
(* and tables.  They do not interact but for the next time event, so one   *)
(* is checked at a time: `kind' says which one the behaviour is of, and    *)
(* the variables the others alone have stay None.                          *)
(*                                                                         *)
(* In the configuration a continuous delay has ten entries: with fewer, a  *)
(* decimation drops only one of them.  A discrete one has five.  Time runs *)
(* until rings are full, and a full one forgets its oldest change.  Three  *)
(* samplers: their instants are as far apart as they may be within the     *)
(* accuracy of samplers, which is more than twice that of events, so that  *)
(* three registrations make a chain.  Tables have jumps, an interval of no *)
(* length at either end, and periods over several of which the time runs.  *)
(***************************************************************************)
EXTENDS Integers, Sequences

CONSTANTS
    None,
    Buffersize, Values, Starts, Horizon,   \* of the continuous delay
    Forward, Span, Delays, Reach,
    Changes, Levels, EventHorizon,         \* of the discrete one: its entries,
    Delay, Past,                           \* the values of its signal, its reach
    SamplerCount, Clocks, Accuracy,        \* of the samplers
    SampleAccuracy, Iterations, SampleHorizon,
    Tables, StartTimes, TableHorizon,      \* of the table
    Never

VARIABLES
    kind, now, NextTimeEvent,
    del, allocated, hist, start, reached, read, expr, failed,
    clock, inEvent, Iter, StartNextTimeEvent, NextSampleTime, NextSampleTimeNew, ticks,
    u, expoType, startTime, last, ipoPoint, t_offset, saved

delays   == <<del, allocated, hist, start, reached, read, expr, failed>>
samplers == <<clock, inEvent, Iter, StartNextTimeEvent, NextSampleTime, NextSampleTimeNew, ticks>>
table    == <<u, expoType, startTime, last, ipoPoint, t_offset, saved>>
vars     == <<kind, now, NextTimeEvent, delays, samplers, table>>

----------------------------------------------------------------------------
Continuous ==
    INSTANCE DelayBuffer WITH nx <- Buffersize, delayID <- allocated

Discrete ==
    INSTANCE DiscreteDelay WITH nx <- Changes, Values <- Levels, Horizon <- EventHorizon,
        Reach <- Past, isAllocated <- allocated

ASSUME RingsAssumption ==
    /\ Continuous!NxAssumption /\ Continuous!DelayAssumption
    /\ Discrete!NxAssumption /\ Discrete!DelayAssumption

Sampled ==
    INSTANCE TimeEvents WITH MaxIter <- Iterations, Horizon <- SampleHorizon

Tabled ==
    INSTANCE TimeTable WITH Exceptions <- FALSE, GoesBack <- FALSE,
        Horizon <- TableHorizon, time <- now

ASSUME SamplersAssumption == Sampled!TimeEventsAssumption
ASSUME TablesAssumption   == Tabled!TableAssumption

NoDelay ==
    /\ del = None /\ allocated = None /\ hist = None /\ start = None /\ reached = None
    /\ read = None /\ expr = None /\ failed = None
NoSampler ==
    /\ clock = None /\ inEvent = None /\ Iter = None /\ StartNextTimeEvent = None
    /\ NextSampleTime = None /\ NextSampleTimeNew = None /\ ticks = None
NoTable ==
    /\ u = None /\ expoType = None /\ startTime = None /\ last = None /\ ipoPoint = None
    /\ t_offset = None /\ saved = None

Init ==
    \/ /\ kind = "continuous" /\ Continuous!Init /\ NoSampler /\ NoTable
       /\ now = None /\ expr = None /\ failed = None /\ NextTimeEvent = None
    \/ /\ kind = "discrete" /\ Discrete!Init /\ NoSampler /\ NoTable
       /\ start = None /\ reached = None /\ read = None /\ NextTimeEvent = None
    \/ kind = "samplers" /\ Sampled!Init /\ NoDelay /\ NoTable
    \/ kind = "table" /\ Tabled!Init /\ NoDelay /\ NoSampler

Next ==
    /\ UNCHANGED kind
    /\ \/ /\ kind = "continuous" /\ Continuous!Next
          /\ UNCHANGED <<now, expr, failed, NextTimeEvent, samplers, table>>
       \/ /\ kind = "discrete" /\ Discrete!Next
          /\ UNCHANGED <<start, reached, read, NextTimeEvent, samplers, table>>
       \/ kind = "samplers" /\ Sampled!Step /\ UNCHANGED <<delays, table>>
       \/ kind = "table" /\ Tabled!Next /\ UNCHANGED <<delays, samplers>>

Spec == Init /\ [][Next]_vars

----------------------------------------------------------------------------
(* See DelayBuffer and DiscreteDelay: the rings are well formed, and       *)
(* decimation and rejected steps keep that of a continuous delay in order, *)
(* with nothing in it but the signal.                                      *)
HoldsHistory ==
    /\ kind = "continuous" =>
          Continuous!TypeOK /\ Continuous!Ordered /\ Continuous!HoldsHistory
    /\ kind = "discrete" => Discrete!TypeOK

(* See DelayBuffer: every read is between two neighbouring entries, from   *)
(* wherever the last search ended.  No read of either kind reaches beyond  *)
(* the oldest entry.                                                       *)
ReadBrackets ==
    /\ kind = "continuous" => Continuous!ReadBrackets /\ Continuous!NeverTooOld
    /\ kind = "discrete" => Discrete!NeverTooOld

(* See DiscreteDelay: changes are answered when they are due, and the      *)
(* iteration of events ends.                                               *)
AnswersDelayed == kind = "discrete" => Discrete!AnswersDelayed
NothingLeftDue == [][kind = "discrete" => Discrete!DueAnswered]_vars

(* See TimeEvents: whatever events come between, samplers are true once    *)
(* for each of their instants, and no merged event passes one by.          *)
SampledInTime == kind = "samplers" => Sampled!TypeOK /\ Sampled!SampledInTime

(* See TimeTable: from an event to the one it registers, the table is on   *)
(* the piece its time is in.                                               *)
TableInPlace == kind = "table" => Tabled!TypeOK /\ Tabled!TableInPlace

----------------------------------------------------------------------------
(* For the configuration. *)
SomeClocks ==
    {[start |-> s, interval |-> 12, maxVal |-> 1, phase |-> 0] : s \in {0, 1, 3}}
      \cup {[start |-> s, interval |-> 13, maxVal |-> 2, phase |-> p] : s \in {2}, p \in {0, 1, -1}}
      \cup {[start |-> -2, interval |-> 13, maxVal |-> 1, phase |-> 0]}

Abscissas  == {-6, 0, 6, 12}
SomeTables == {t \in UNION {[1 .. n -> Abscissas] : n \in 1 .. 3} :
                \A i \in 1 .. Len(t) - 1 : t[i] <= t[i + 1]}
             \cup {<<0, 6, 6, 12>>, <<-6, -6, 0, 12>>}
=============================================================================
