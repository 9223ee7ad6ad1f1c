------------------------------ MODULE DelayRing ------------------------------
(***************************************************************************)
(* The ring buffers of delay.c: one delayStruct, with the operations all   *)
(* three kinds of delay share.  Entry i holds the abscissa x[i] and the    *)
(* value y[i]; `first' and `add' are the positions of the oldest and the   *)
(* newest entry, `old' is where the last look-up ended and the next one    *)
(* begins.                                                                 *)
(*                                                                         *)
(* The loops that walk the ring are given by where they end.               *)
(***************************************************************************)
EXTENDS Integers, FiniteSetsExt

CONSTANT nx   \* the number of entries, Buffersize

(* A decimation that drops nothing would overwrite the oldest entry; the   *)
(* code has 20000 entries.                                                 *)
NxAssumption == nx \in Nat /\ nx >= 5

Positions == 0 .. nx - 1

(* The positions k after and before i. *)
Ahead(i, k) == IF i + k < nx THEN i + k ELSE i + k - nx
Back(i, k)  == IF i - k >= 0 THEN i - k ELSE i - k + nx

After(i)  == Ahead(i, 1)
Before(i) == Back(i, 1)

(* How many steps lead from i up to j. *)
Distance(i, j) == IF j >= i THEN j - i ELSE j - i + nx

(* The positions from the oldest to the newest entry. *)
Live(d) == {Ahead(d.first, k) : k \in 0 .. Distance(d.first, d.add)}

Entry(d, i) == <<d.x[i], d.y[i]>>

(* allocDelayBuffers: a new buffer is all zeros. *)
NewBuffer(zero) ==
    [x |-> [i \in Positions |-> 0], y |-> [i \in Positions |-> zero],
     first |-> 0, add |-> 0, old |-> 0]

(* delayIni2: two entries of the initial value u, the first so far in the  *)
(* past that no look-up reaches beyond it.  The others are left as they    *)
(* are.                                                                    *)
Initialised(d, past, start, u) ==
    [x |-> [d.x EXCEPT ![0] = past, ![1] = start],
     y |-> [d.y EXCEPT ![0] = u, ![1] = u],
     first |-> 0, add |-> 1, old |-> 1]

(* The entries at or after t are dropped, newest first. *)
FutureDropped(d, t) ==
    [d EXCEPT !.add = Back(@, Min({k \in Positions : d.x[Back(d.add, k)] < t}))]

Stored(d, t, u) == [d EXCEPT !.x[d.add] = t, !.y[d.add] = u]

=============================================================================
