--------------------------- MODULE MCTimed_proofs ---------------------------
(***************************************************************************)
(* The delays of MCTimed, for rings of any size and any signal; samplers,  *)
(* any number of them; and tables of any abscissas.                        *)
(*                                                                         *)
(* A ring is read as the sequence it stands for: At(n, d, i) is the        *)
(* instant, and Of(n, d, i) the entry, of the i-th oldest of those held.   *)
(* The first lemmas say what dropping, storing and decimating do to that   *)
(* sequence (DroppedIs, PutIs, DecimatedIs), then what a write and a       *)
(* search do (WriteIs, WrittenIs, LookIs; ChangeIs, AnswerIs).             *)
(*                                                                         *)
(* RingInv says what the ring of a continuous delay holds.  A search       *)
(* starts where the last one ended, which need not be an entry that is     *)
(* still held: it may have been dropped, or left behind by a decimation    *)
(* (Searches).  SearchInv keeps what such a place still has of the signal, *)
(* so that a search from there ends where it should.                       *)
(*                                                                         *)
(* ChangeInv relates the ring of a discrete delay to all changes of its    *)
(* signal since the oldest one held.                                       *)
(*                                                                         *)
(* SamplersInv: a sampler has been true as often as it has instants before *)
(* the next one of its clock, and none of those lies between the present   *)
(* time and the interval of the next time event, which begins at the first *)
(* instant registered (MergedIs).                                          *)
(*                                                                         *)
(* TableInv: a table is in an interval that has not ended and follows one  *)
(* that has, in a period the time is in but for a unit (Placed); the same  *)
(* of a saved state.  With that the piece the time is in is the one that   *)
(* is used, for as long as the interval lasts (PieceIs).                   *)
(***************************************************************************)
EXTENDS MCTimed, WellFoundedInduction, FiniteSetTheorems, TLAPS

----------------------------------------------------------------------------
(* Least and greatest numbers of a set.                                    *)

Least(S)    == CHOOSE x \in S : \A y \in S : x =< y
Greatest(S) == CHOOSE x \in S : \A y \in S : x >= y

(* A set of numbers has its least one.                                     *)
LEMMA LeastIs ==
    ASSUME NEW S, S \subseteq Nat, S # {}
    PROVE  Least(S) \in S /\ \A y \in S : Least(S) <= y
<1>1. IsWellFoundedOn(OpToRel(<, Nat), Nat)
  BY NatLessThanWellFounded
<1>2. PICK x \in S : \A y \in S : ~ (<<y, x>> \in OpToRel(<, Nat))
  BY <1>1, WFMin
<1>3. \A y \in S : ~(y < x)
  BY <1>2 DEF OpToRel
<1>4. \A y \in S : x =< y
  BY <1>3
<1> QED
  BY <1>4 DEF Least

(* A set of numbers with a bound has its greatest one.                     *)
LEMMA GreatestIs ==
    ASSUME NEW S, NEW b \in Int, \A x \in S : x \in Int /\ x <= b, S # {}
    PROVE  Greatest(S) \in S /\ \A y \in S : Greatest(S) >= y
<1> DEFINE R == {b - x : x \in S}
<1>1. R \subseteq Nat /\ R # {}
  OBVIOUS
<1>2. Least(R) \in R /\ \A r \in R : Least(R) <= r
  BY <1>1, LeastIs
<1>3. PICK x \in S : Least(R) = b - x
  BY <1>2
<1>4. \A y \in S : b - y \in R
  OBVIOUS
<1>5. \A y \in S : x >= y
  <2> TAKE y \in S
  <2>1. b - x <= b - y
    BY <1>2, <1>3, <1>4
  <2> QED
    BY <2>1
<1> QED
  BY <1>5 DEF Greatest

----------------------------------------------------------------------------
(* Rings of n entries.                                                     *)

Fwd(n, i, k)  == IF i + k < n THEN i + k ELSE i + k - n
Bwd(n, i, k)  == IF i - k >= 0 THEN i - k ELSE i - k + n
Dist(n, i, j) == IF j >= i THEN j - i ELSE j - i + n

Rings(n, V) ==
    [x : [0 .. n - 1 -> Int], y : [0 .. n - 1 -> V],
     first : 0 .. n - 1, add : 0 .. n - 1, old : 0 .. n - 1]

(* The entries held are those from 0 to Held(n, d), oldest first. *)
Held(n, d)  == Dist(n, d.first, d.add)
Pos(n, d, i) == Fwd(n, d.first, i)
At(n, d, i) == d.x[Pos(n, d, i)]
Of(n, d, i) == <<d.x[Pos(n, d, i)], d.y[Pos(n, d, i)]>>

(* They are at different instants, a unit of time or more apart. *)
Spread(n, d) ==
    \A i, j \in 0 .. Held(n, d) : i <= j => At(n, d, j) - At(n, d, i) >= j - i

Sizes == Nat \ 0 .. 4

(* Different entries are at different positions.                           *)
LEMMA PositionsDiffer ==
    ASSUME NEW n \in Sizes, NEW f \in 0 .. n - 1,
           NEW i \in 0 .. n - 1, NEW j \in 0 .. n - 1, Fwd(n, f, i) = Fwd(n, f, j)
    PROVE  i = j
BY DEF Sizes, Fwd

(* The entries at or after t are dropped. *)
Dropped(n, d, t) ==
    [d EXCEPT !.add = Bwd(n, @, Least({k \in 0 .. n - 1 : d.x[Bwd(n, d.add, k)] < t}))]

(* Dropping leaves the entries before t, and nothing but those.            *)
LEMMA DroppedIs ==
    ASSUME NEW n \in Sizes, NEW V, NEW d \in Rings(n, V), Spread(n, d), NEW t \in Int,
           At(n, d, 0) < t
    PROVE  LET e == Dropped(n, d, t)
               m == Held(n, d)
           IN  \E k \in 0 .. m :
                 /\ e = [d EXCEPT !.add = Bwd(n, d.add, k)]
                 /\ e \in Rings(n, V)
                 /\ Held(n, e) = m - k
                 /\ \A i \in 0 .. m - k : At(n, d, i) < t
                 /\ \A i \in m - k + 1 .. m : At(n, d, i) >= t
<1> DEFINE m == Held(n, d)
           S == {k \in 0 .. n - 1 : d.x[Bwd(n, d.add, k)] < t}
<1>1. /\ n \in Nat /\ n >= 5
      /\ d.first \in 0 .. n - 1 /\ d.add \in 0 .. n - 1
  BY DEF Rings, Sizes
<1>0. d.x \in [0 .. n - 1 -> Int]
  BY DEF Rings
<1>2. m \in 0 .. n - 1 /\ Fwd(n, d.first, m) = d.add
  BY <1>1 DEF Held, Dist, Fwd
<1>3. \A i \in 0 .. m : Bwd(n, d.add, i) = Pos(n, d, m - i) /\ Bwd(n, d.add, i) \in 0 .. n - 1
  <2> HIDE DEF m
  <2> TAKE i \in 0 .. m
  <2> QED
    BY <1>1, <1>2 DEF Pos, Fwd, Bwd
<1>4. m \in S
  <2>1. Bwd(n, d.add, m) = Pos(n, d, 0)
    BY <1>2, <1>3
  <2> QED
    BY <1>2, <2>1 DEF At
<1>5. PICK k \in S : k = Least(S) /\ \A i \in S : k <= i
  <2>1. S \subseteq Nat /\ S # {}
    BY <1>1, <1>4
  <2> HIDE DEF S
  <2> QED
    BY <2>1, LeastIs
<1> HIDE DEF m
<1>6. k \in 0 .. m
  BY <1>1, <1>2, <1>4, <1>5
<1>7. \A i \in 0 .. m : At(n, d, i) \in Int
  <2> TAKE i \in 0 .. m
  <2>1. Pos(n, d, i) \in 0 .. n - 1
    BY <1>1, <1>2 DEF Pos, Fwd
  <2> QED
    BY <1>0, <2>1 DEF At
<1>8. At(n, d, m - k) < t
  <2>1. Bwd(n, d.add, k) = Pos(n, d, m - k)
    BY <1>3, <1>6
  <2> QED
    BY <1>5, <2>1 DEF At
<1>9. \A i \in 0 .. m - k : At(n, d, i) < t
  <2> TAKE i \in 0 .. m - k
  <2>0. i \in 0 .. m /\ m - k \in 0 .. m /\ i <= m - k
    BY <1>2, <1>6
  <2>1. At(n, d, m - k) - At(n, d, i) >= (m - k) - i
    BY <2>0 DEF Spread, m
  <2>2. At(n, d, m - k) \in Int /\ At(n, d, i) \in Int
    BY <2>0, <1>7
  <2> QED
    BY <2>0, <2>1, <2>2, <1>2, <1>6, <1>8
<1>10. \A i \in m - k + 1 .. m : At(n, d, i) >= t
  <2> TAKE i \in m - k + 1 .. m
  <2>1. m - i \in 0 .. n - 1 /\ m - i < k /\ i \in 0 .. m /\ m - i \in 0 .. m /\ m - (m - i) = i
    BY <1>1, <1>2, <1>6
  <2>2. ~(d.x[Bwd(n, d.add, m - i)] < t)
    BY <2>1, <1>1, <1>5, <1>6
  <2>3. Bwd(n, d.add, m - i) = Pos(n, d, i)
    BY <2>1, <1>3
  <2>4. ~(At(n, d, i) < t)
    BY <2>2, <2>3 DEF At
  <2> QED
    BY <2>1, <2>4, <1>7
<1>11. Dropped(n, d, t) = [d EXCEPT !.add = Bwd(n, d.add, k)]
  BY <1>5 DEF Dropped
<1> HIDE DEF S
<1>12. Dist(n, d.first, Bwd(n, d.add, k)) = m - k /\ Bwd(n, d.add, k) \in 0 .. n - 1
  BY <1>1, <1>2, <1>6 DEF Bwd, Dist, Fwd
<1>13. Held(n, Dropped(n, d, t)) = m - k /\ Dropped(n, d, t) \in Rings(n, V)
  BY <1>11, <1>12 DEF Rings, Held
<1> QED
  BY <1>6, <1>9, <1>10, <1>11, <1>13 DEF m

(* An entry is added after the newest one. *)
Put(n, e, t, v) ==
    [e EXCEPT !.add = Fwd(n, e.add, 1),
              !.x = [e.x EXCEPT ![Fwd(n, e.add, 1)] = t],
              !.y = [e.y EXCEPT ![Fwd(n, e.add, 1)] = v]]

(* A new entry goes after the newest; the others stay.                     *)
LEMMA PutIs ==
    ASSUME NEW n \in Sizes, NEW V, NEW e \in Rings(n, V), Spread(n, e), NEW t \in Int,
           NEW v \in V, Held(n, e) < n - 1, \A i \in 0 .. Held(n, e) : At(n, e, i) < t
    PROVE  LET w == Put(n, e, t, v)
               m == Held(n, e)
           IN  /\ w \in Rings(n, V) /\ Spread(n, w)
               /\ w.first = e.first /\ w.old = e.old
               /\ Held(n, w) = m + 1
               /\ \A i \in 0 .. m : Of(n, w, i) = Of(n, e, i)
               /\ Of(n, w, m + 1) = <<t, v>>
               /\ w.add = Pos(n, e, m + 1)
               /\ \A p \in 0 .. n - 1 \ {w.add} : w.x[p] = e.x[p] /\ w.y[p] = e.y[p]
<1> DEFINE w == Put(n, e, t, v)
           m == Held(n, e)
           a == Fwd(n, e.add, 1)
<1>1. /\ n \in Nat /\ n >= 5
      /\ e.first \in 0 .. n - 1 /\ e.add \in 0 .. n - 1
  BY DEF Rings, Sizes
<1>2. m \in 0 .. n - 2 /\ Fwd(n, e.first, m) = e.add
  BY <1>1 DEF Held, Dist, Fwd
<1>3. a \in 0 .. n - 1 /\ a = Fwd(n, e.first, m + 1) /\ Dist(n, e.first, a) = m + 1
  <2> HIDE DEF m
  <2> QED
    BY <1>1, <1>2 DEF Fwd, Dist
<1>4. \A i \in 0 .. m : Fwd(n, e.first, i) \in 0 .. n - 1 /\ Fwd(n, e.first, i) # a
  <2> HIDE DEF m
  <2> QED
    BY <1>1, <1>2, <1>3 DEF Fwd
<1>5. /\ w \in Rings(n, V) /\ w.first = e.first /\ w.old = e.old /\ w.add = a
      /\ w.x = [e.x EXCEPT ![a] = t] /\ w.y = [e.y EXCEPT ![a] = v]
  BY <1>3 DEF Put, Rings
<1>6. e.x \in [0 .. n - 1 -> Int] /\ e.y \in [0 .. n - 1 -> V]
  BY DEF Rings
<1>7. Held(n, w) = m + 1
  BY <1>3, <1>5 DEF Held
<1> HIDE DEF w
<1>8. \A i \in 0 .. m : Of(n, w, i) = Of(n, e, i) /\ At(n, w, i) = At(n, e, i) /\ At(n, e, i) \in Int
  <2> TAKE i \in 0 .. m
  <2>1. Pos(n, e, i) = Pos(n, w, i) /\ Pos(n, e, i) # a /\ Pos(n, e, i) \in 0 .. n - 1
    BY <1>4, <1>5 DEF Pos
  <2> QED
    BY <2>1, <1>5, <1>6 DEF Of, At
<1>9. Of(n, w, m + 1) = <<t, v>> /\ At(n, w, m + 1) = t
  BY <1>3, <1>5, <1>6 DEF Of, At, Pos
<1>10. Spread(n, w)
  <2> SUFFICES ASSUME NEW i \in 0 .. m + 1, NEW j \in 0 .. m + 1, i <= j
               PROVE  At(n, w, j) - At(n, w, i) >= j - i
    BY <1>7 DEF Spread
  <2> HIDE DEF m
  <2>1. CASE j <= m
    <3>1. i \in 0 .. m /\ j \in 0 .. m
      BY <1>2, <2>1
    <3>2. At(n, e, j) - At(n, e, i) >= j - i
      BY <3>1 DEF Spread, m
    <3> QED
      BY <3>1, <3>2, <1>8
  <2>2. CASE i <= m /\ j = m + 1
    <3>1. i \in 0 .. m /\ m \in 0 .. m /\ i <= m
      BY <1>2, <2>2
    <3>2. At(n, e, m) - At(n, e, i) >= m - i
      BY <3>1 DEF Spread, m
    <3>3. At(n, e, m) < t
      BY <3>1 DEF m
    <3>4. At(n, w, j) = t /\ At(n, w, i) = At(n, e, i) /\ At(n, e, i) \in Int /\ At(n, e, m) \in Int
      BY <1>8, <1>9, <2>2, <3>1
    <3> QED
      BY <1>2, <2>2, <3>1, <3>2, <3>3, <3>4
  <2>3. CASE i = m + 1
    <3>1. j = i
      BY <1>2, <2>3
    <3> QED
      BY <1>9, <2>3, <3>1
  <2> QED
    BY <1>2, <2>1, <2>2, <2>3
<1>11. \A p \in 0 .. n - 1 \ {w.add} : w.x[p] = e.x[p] /\ w.y[p] = e.y[p]
  BY <1>5, <1>6
<1> QED
  BY <1>3, <1>5, <1>7, <1>8, <1>9, <1>10, <1>11 DEF w, Pos

----------------------------------------------------------------------------
(* The decimation of a full ring.                                          *)

(* The entries left out. *)
Gap == (Continuous!Older + 1) \div 4

(* What the size of a ring says about its decimation.                      *)
LEMMA RingConstants ==
    /\ Buffersize \in Sizes /\ Buffersize \in Nat /\ Buffersize >= 5
    /\ Continuous!Older \in 3 .. Buffersize - 1
    /\ Gap \in 1 .. Continuous!Older - 2
    /\ Continuous!Slot(Continuous!Older) = Continuous!Older - Gap
BY RingsAssumption
DEF Continuous!NxAssumption, Sizes, Continuous!Older, Continuous!Slot, Gap

(* A later entry never goes to an earlier place, nor further than it was.  *)
LEMMA SlotsAre ==
    ASSUME NEW i \in Nat, NEW j \in Nat, i <= j
    PROVE  /\ Continuous!Slot(i) \in Nat
           /\ 0 <= Continuous!Slot(j) - Continuous!Slot(i)
           /\ Continuous!Slot(j) - Continuous!Slot(i) <= j - i
BY DEF Continuous!Slot

(* The place p of the entries that are moved up gets one of them, and from *)
(* one place to the next it is another one, or several, further.           *)
LEMMA MoversAre ==
    ASSUME NEW p \in 0 .. Continuous!Older - Gap
    PROVE  /\ Continuous!Mover(p) \in 0 .. Continuous!Older
           /\ Continuous!Slot(Continuous!Mover(p)) = p
           /\ \A j \in 0 .. Continuous!Older : Continuous!Slot(j) = p => j <= Continuous!Mover(p)
<1> DEFINE S == {j \in 0 .. Continuous!Older : Continuous!Slot(j) = p}
<1>1. p + p \div 3 \in S
  <2>1. Continuous!Slot(p + p \div 3) = p /\ p + p \div 3 \in Nat
    BY RingConstants DEF Continuous!Slot
  <2>2. p + p \div 3 <= Continuous!Older
    BY RingConstants DEF Gap
  <2> QED
    BY <2>1, <2>2, RingConstants
<1>2. Greatest(S) \in S /\ \A j \in S : Greatest(S) >= j
  <2>1. S # {} /\ \A j \in S : j \in Int /\ j <= Continuous!Older
    BY <1>1, RingConstants
  <2>2. Continuous!Older \in Int
    BY RingConstants
  <2> HIDE DEF S
  <2> QED
    BY <2>1, <2>2, GreatestIs
<1>3. Continuous!Mover(p) = Greatest(S)
  BY DEF Continuous!Mover, Continuous!Max, Greatest
<1> QED
  BY <1>2, <1>3

(* Entries moved up are no closer to each other than their places.         *)
LEMMA MoversSpread ==
    ASSUME NEW p \in 0 .. Continuous!Older - Gap, NEW q \in 0 .. Continuous!Older - Gap, p <= q
    PROVE  Continuous!Mover(q) - Continuous!Mover(p) >= q - p
<1> DEFINE a == Continuous!Mover(p)
           b == Continuous!Mover(q)
<1>1. a \in Nat /\ b \in Nat /\ Continuous!Slot(a) = p /\ Continuous!Slot(b) = q
  BY MoversAre, RingConstants
<1> HIDE DEF a, b
<1>2. CASE a <= b
  <2>1. Continuous!Slot(b) - Continuous!Slot(a) <= b - a
    BY <1>1, <1>2, SlotsAre
  <2> QED
    BY <1>1, <2>1 DEF a, b
<1>3. CASE b < a
  <2>1. 0 <= Continuous!Slot(a) - Continuous!Slot(b)
    BY <1>1, <1>3, SlotsAre
  <2>2. p = q
    BY <1>1, <2>1, RingConstants
  <2> QED
    BY <2>2, <1>1 DEF a, b
<1> QED
  BY <1>1, <1>2, <1>3

(* The oldest entry is moved, not left out.                                *)
LEMMA MoverOfOldest ==
    Continuous!Mover(Continuous!Older - Gap) = Continuous!Older /\ Continuous!Mover(0) = 0
<1>1. Continuous!Older - Gap \in 0 .. Continuous!Older - Gap /\ 0 \in 0 .. Continuous!Older - Gap
  BY RingConstants
<1>2. Continuous!Mover(Continuous!Older - Gap) = Continuous!Older
  BY <1>1, MoversAre, RingConstants
<1>3. Continuous!Mover(0) \in Nat /\ Continuous!Slot(Continuous!Mover(0)) = 0
  BY <1>1, MoversAre, RingConstants
<1> HIDE DEF Continuous!Mover
<1> QED
  BY <1>2, <1>3 DEF Continuous!Slot

(* Which entry is the i-th one after a decimation. *)
Stays(i) ==
    IF i <= Continuous!Older - Gap THEN Continuous!Older - Continuous!Mover(Continuous!Older - Gap - i)
    ELSE i + Gap

(* Which entry of the old ring each entry of the decimated one is.         *)
LEMMA StaysIs ==
    /\ Stays(0) = 0
    /\ \A i \in 0 .. Buffersize - Gap - 1 : Stays(i) \in 0 .. Buffersize - 1
    /\ \A i, j \in 0 .. Buffersize - Gap - 1 : i <= j => Stays(j) - Stays(i) >= j - i
<1>1. Stays(0) = 0
  BY RingConstants, MoverOfOldest DEF Stays
<1>2. \A i \in 0 .. Buffersize - Gap - 1 : Stays(i) \in 0 .. Buffersize - 1
  <2> TAKE i \in 0 .. Buffersize - Gap - 1
  <2>1. CASE i <= Continuous!Older - Gap
    <3>1. Continuous!Older - Gap - i \in 0 .. Continuous!Older - Gap
      BY <2>1, RingConstants
    <3>2. Continuous!Mover(Continuous!Older - Gap - i) \in 0 .. Continuous!Older
      BY <3>1, MoversAre
    <3> QED
      BY <2>1, <3>2, RingConstants DEF Stays
  <2>2. CASE i > Continuous!Older - Gap
    BY <2>2, RingConstants DEF Stays
  <2> QED
    BY <2>1, <2>2, RingConstants
<1>3. ASSUME NEW i \in 0 .. Buffersize - Gap - 1, NEW j \in 0 .. Buffersize - Gap - 1, i <= j
      PROVE  Stays(j) - Stays(i) >= j - i
  <2> DEFINE r == Continuous!Older - Gap
             p == Continuous!Mover(r - i)
             q == Continuous!Mover(r - j)
  <2>0. r \in Nat /\ i \in Nat /\ j \in Nat /\ i <= j
    BY <1>3, RingConstants
  <2>1. CASE j <= r
    <3>1. r - i \in 0 .. r /\ r - j \in 0 .. r /\ r - j <= r - i
      BY <2>0, <2>1
    <3>2. p - q >= (r - i) - (r - j) /\ p \in Nat /\ q \in Nat
      BY <3>1, MoversSpread, MoversAre, RingConstants
    <3>3. Stays(i) = Continuous!Older - p /\ Stays(j) = Continuous!Older - q
      BY <2>0, <2>1 DEF Stays
    <3> HIDE DEF p, q, r
    <3> QED
      BY <2>0, <3>2, <3>3, RingConstants
  <2>2. CASE i <= r /\ r < j
    <3>1. r - i \in 0 .. r /\ 0 \in 0 .. r
      BY <2>0, <2>2
    <3>2. p - Continuous!Mover(0) >= r - i /\ p \in Nat
      BY <3>1, MoversSpread, MoversAre, RingConstants
    <3>3. Stays(i) = Continuous!Older - p /\ Stays(j) = j + Gap
      BY <2>0, <2>2 DEF Stays
    <3>4. r = Continuous!Older - Gap
      OBVIOUS
    <3> HIDE DEF p, q, r
    <3> QED
      BY <2>0, <3>2, <3>3, <3>4, RingConstants, MoverOfOldest
  <2>3. CASE r < i
    BY <2>0, <2>3, RingConstants DEF Stays
  <2> QED
    BY <2>0, <2>1, <2>2, <2>3
<1> QED
  BY <1>1, <1>2, <1>3

(* The ring operators of DelayRing, for a continuous delay.                *)
LEMMA RingSteps ==
    /\ \A i, k : Continuous!Ahead(i, k) = Fwd(Buffersize, i, k)
    /\ \A i, k : Continuous!Back(i, k) = Bwd(Buffersize, i, k)
    /\ \A i, j : Continuous!Distance(i, j) = Dist(Buffersize, i, j)
    /\ Continuous!Positions = 0 .. Buffersize - 1
BY DEF Continuous!Ahead, Continuous!Back, Continuous!Distance, Continuous!Positions, Fwd, Bwd, Dist

(* A decimated ring holds fewer entries of the same, in order.             *)
LEMMA DecimatedIs ==
    ASSUME NEW V, NEW d \in Rings(Buffersize, V)
    PROVE  LET c == Continuous!Decimated(d)
           IN  /\ c \in Rings(Buffersize, V)
               /\ c.first = Pos(Buffersize, d, Gap) /\ c.add = d.add /\ c.old = d.old
               /\ \A i \in 0 .. Buffersize - Gap - 1 :
                     Of(Buffersize, c, i) = Of(Buffersize, d, Stays(i))
               /\ \A i \in 1 .. Gap - 1 : LET p == Pos(Buffersize, d, i)
                                          IN  c.x[p] = d.x[p] /\ c.y[p] = d.y[p]
               /\ \A p \in 0 .. Buffersize - 1 : \E q \in 0 .. Buffersize - 1 : c.x[p] = d.x[q]
<1> DEFINE n == Buffersize
           o == Continuous!Older
           top == Fwd(n, d.first, o)
           from == [p \in 0 .. n - 1 |->
                      IF Dist(n, p, top) > o - Gap THEN p
                      ELSE Bwd(n, top, Continuous!Mover(Dist(n, p, top)))]
           c == Continuous!Decimated(d)
<1>1. n \in Nat /\ n >= 5 /\ o \in 3 .. n - 1 /\ Gap \in 1 .. o - 2 /\ d.first \in 0 .. n - 1
  BY RingConstants DEF Rings
<1>2. top \in 0 .. n - 1 /\ Bwd(n, top, o - Gap) = Pos(n, d, Gap) /\ Pos(n, d, Gap) \in 0 .. n - 1
  <2> HIDE DEF n, o
  <2> QED
    BY <1>1 DEF Pos, Fwd, Bwd
<1>3. ASSUME NEW r \in 0 .. n - 1
      PROVE  /\ Pos(n, d, r) \in 0 .. n - 1
             /\ r \notin Gap .. o => from[Pos(n, d, r)] = Pos(n, d, r)
             /\ r \in Gap .. o => from[Pos(n, d, r)] = Pos(n, d, o - Continuous!Mover(o - r))
  <2>1. /\ Pos(n, d, r) \in 0 .. n - 1
        /\ r <= o => Dist(n, Pos(n, d, r), top) = o - r
        /\ r > o => Dist(n, Pos(n, d, r), top) = o - r + n
    <3> HIDE DEF n, o
    <3> QED
      BY <1>1 DEF Pos, Fwd, Dist
  <2>2. CASE r \notin Gap .. o
    <3>1. Dist(n, Pos(n, d, r), top) > o - Gap
      <4> HIDE DEF n, o, top
      <4> QED
        BY <1>1, <2>1, <2>2
    <3> QED
      BY <2>1, <2>2, <3>1
  <2>3. CASE r \in Gap .. o
    <3>1. Dist(n, Pos(n, d, r), top) = o - r /\ ~(o - r > o - Gap) /\ o - r \in 0 .. o - Gap
      BY <1>1, <2>1, <2>3
    <3>2. Continuous!Mover(o - r) \in 0 .. o
      BY <3>1, MoversAre
    <3>3. Bwd(n, top, Continuous!Mover(o - r)) = Pos(n, d, o - Continuous!Mover(o - r))
      <4> DEFINE k == Continuous!Mover(o - r)
      <4>1. k \in 0 .. o
        BY <3>2
      <4> HIDE DEF n, o, k
      <4>2. Bwd(n, Fwd(n, d.first, o), k) = Fwd(n, d.first, o - k)
        BY <1>1, <4>1 DEF Fwd, Bwd
      <4> QED
        BY <4>2 DEF k, Pos
    <3> QED
      BY <2>1, <2>3, <3>1, <3>3
  <2> QED
    BY <2>1, <2>2, <2>3
<1>4. /\ c = [d EXCEPT !.x = [p \in 0 .. n - 1 |-> d.x[from[p]]],
                       !.y = [p \in 0 .. n - 1 |-> d.y[from[p]]],
                       !.first = Pos(n, d, Gap)]
  <2>1. /\ Continuous!Ahead(d.first, o) = top
        /\ Continuous!Back(top, Continuous!Slot(o)) = Pos(n, d, Gap)
        /\ Continuous!Slot(o) = o - Gap
    BY <1>2, RingSteps, RingConstants
  <2> DEFINE Moved(f) ==
               [i \in Continuous!Positions |->
                   IF Continuous!Distance(i, top) > Continuous!Slot(o) THEN f[i]
                   ELSE f[Continuous!Back(top, Continuous!Mover(Continuous!Distance(i, top)))]]
             From(f) == [p \in 0 .. n - 1 |-> f[from[p]]]
  <2>2. ASSUME NEW f PROVE Moved(f) = From(f)
    <3> HIDE DEF top, o
    <3>1. \A i \in 0 .. n - 1 :
             (IF Continuous!Distance(i, top) > Continuous!Slot(o) THEN f[i]
              ELSE f[Continuous!Back(top, Continuous!Mover(Continuous!Distance(i, top)))])
             = f[from[i]]
      BY <2>1, RingSteps
    <3> HIDE DEF from
    <3> QED
      BY <3>1, RingSteps
  <2>3. c = [d EXCEPT !.x = Moved(d.x), !.y = Moved(d.y),
                      !.first = Continuous!Back(Continuous!Ahead(d.first, o), Continuous!Slot(o))]
    <3>1. Continuous!Ahead(d.first, o) = top
      BY <2>1
    <3> HIDE DEF top
    <3> QED
      BY <3>1 DEF Continuous!Decimated
  <2>4. c = [d EXCEPT !.x = From(d.x), !.y = From(d.y), !.first = Pos(n, d, Gap)]
    <3> HIDE DEF Moved, From, c, n, o, top
    <3> QED
      BY <2>1, <2>2, <2>3
  <2> HIDE DEF from, c, n
  <2> QED
    BY <2>4
<1>5. \A p \in 0 .. n - 1 : from[p] \in 0 .. n - 1
  <2> TAKE p \in 0 .. n - 1
  <2>1. PICK r \in 0 .. n - 1 : p = Pos(n, d, r)
    <3>1. Dist(n, d.first, p) \in 0 .. n - 1 /\ Fwd(n, d.first, Dist(n, d.first, p)) = p
      <4> HIDE DEF n
      <4> QED
        BY <1>1 DEF Fwd, Dist
    <3> QED
      BY <3>1 DEF Pos
  <2>2. CASE r \notin Gap .. o
    BY <1>3, <2>1, <2>2
  <2>3. CASE r \in Gap .. o
    <3>1. o - r \in 0 .. o - Gap
      BY <1>1, <2>3
    <3>2. Continuous!Mover(o - r) \in 0 .. o
      BY <3>1, MoversAre
    <3>3. o - Continuous!Mover(o - r) \in 0 .. n - 1
      BY <3>2, <1>1
    <3> QED
      BY <1>3, <2>1, <2>3, <3>3
  <2> QED
    BY <2>2, <2>3
<1> HIDE DEF from, c
<1>6. d.x \in [0 .. n - 1 -> Int] /\ d.y \in [0 .. n - 1 -> V]
  BY DEF Rings
<1>7. /\ c \in Rings(n, V) /\ c.first = Pos(n, d, Gap) /\ c.add = d.add /\ c.old = d.old
      /\ \A p \in 0 .. n - 1 : c.x[p] = d.x[from[p]] /\ c.y[p] = d.y[from[p]]
  BY <1>2, <1>4, <1>5, <1>6 DEF Rings
<1>8. ASSUME NEW i \in 0 .. n - Gap - 1
      PROVE  Of(n, c, i) = Of(n, d, Stays(i))
  <2>1. Gap + i \in 0 .. n - 1 /\ Pos(n, c, i) = Pos(n, d, Gap + i)
    <3>1. Gap + i \in 0 .. n - 1 /\ Fwd(n, Fwd(n, d.first, Gap), i) = Fwd(n, d.first, Gap + i)
      <4> HIDE DEF n, o
      <4> QED
        BY <1>1 DEF Fwd
    <3> QED
      BY <3>1, <1>7 DEF Pos
  <2>2. from[Pos(n, d, Gap + i)] = Pos(n, d, Stays(i))
    <3>1. CASE i <= o - Gap
      <4>1. Gap + i \in Gap .. o /\ o - (Gap + i) = o - Gap - i
        BY <1>1, <3>1
      <4>2. from[Pos(n, d, Gap + i)] = Pos(n, d, o - Continuous!Mover(o - (Gap + i)))
        BY <2>1, <4>1, <1>3
      <4> QED
        BY <3>1, <4>1, <4>2 DEF Stays
    <3>2. CASE i > o - Gap
      <4>1. Gap + i \notin Gap .. o /\ Gap + i = i + Gap /\ ~(i <= o - Gap)
        BY <1>1, <3>2
      <4>2. from[Pos(n, d, Gap + i)] = Pos(n, d, Gap + i)
        BY <2>1, <4>1, <1>3
      <4> QED
        BY <4>1, <4>2 DEF Stays
    <3> QED
      BY <1>1, <3>1, <3>2
  <2>3. Pos(n, d, Gap + i) \in 0 .. n - 1
    BY <2>1, <1>3
  <2> QED
    BY <2>1, <2>2, <2>3, <1>7 DEF Of
<1>9. ASSUME NEW i \in 1 .. Gap - 1
      PROVE  LET p == Pos(n, d, i) IN c.x[p] = d.x[p] /\ c.y[p] = d.y[p]
  <2>1. i \in 0 .. n - 1 /\ i \notin Gap .. o
    BY <1>1
  <2>2. from[Pos(n, d, i)] = Pos(n, d, i) /\ Pos(n, d, i) \in 0 .. n - 1
    BY <2>1, <1>3
  <2> QED
    BY <2>2, <1>7
<1>10. \A p \in 0 .. n - 1 : \E q \in 0 .. n - 1 : c.x[p] = d.x[q]
  BY <1>5, <1>7
<1> QED
  BY <1>7, <1>8, <1>9, <1>10 DEF c

(* delayWrite2: an entry is put after some of the entries of the ring, all *)
(* of them from before t, the oldest one among them.  Nothing else is      *)
(* moved, or the ring was full and leaves every fourth of them behind.     *)
LEMMA WriteIs ==
    ASSUME NEW V, NEW d \in Rings(Buffersize, V), Spread(Buffersize, d), NEW t \in Int,
           At(Buffersize, d, 0) < t, NEW v \in V
    PROVE  LET n == Buffersize
           IN  \E e \in Rings(n, V) :
                 /\ Continuous!Write(d, t, v) = Put(n, e, t, v)
                 /\ Spread(n, e) /\ Held(n, e) < n - 1
                 /\ \A i \in 0 .. Held(n, e) : At(n, e, i) < t
                 /\ e.old = d.old
                 /\ \A p \in 0 .. n - 1 : \E q \in 0 .. n - 1 : e.x[p] = d.x[q]
                 /\ Of(n, e, 0) = Of(n, d, 0)
                 /\ \A i \in 0 .. Held(n, e) : \E j \in 0 .. Held(n, d) : Of(n, e, i) = Of(n, d, j)
                 /\ \/ e = Dropped(n, d, t)
                    \/ /\ Held(n, d) = n - 1 /\ Held(n, e) = n - Gap - 1
                       /\ \A i \in 0 .. n - 1 : At(n, d, i) < t
                       /\ e.first = Pos(n, d, Gap)
                       /\ \A i \in 1 .. Gap - 1 :
                             LET p == Pos(n, d, i) IN e.x[p] = d.x[p] /\ e.y[p] = d.y[p]
<1> DEFINE n == Buffersize
           m == Held(n, d)
           f == Dropped(n, d, t)
           room == [f EXCEPT !.add = Fwd(n, @, 1)]
<1>1. /\ n \in Sizes /\ n \in Nat /\ n >= 5 /\ Gap \in 1 .. n - 3
      /\ d.first \in 0 .. n - 1 /\ d.add \in 0 .. n - 1
  BY RingConstants DEF Rings
<1>2. m \in 0 .. n - 1 /\ Fwd(n, d.first, m) = d.add
  <2> HIDE DEF n
  <2> QED
    BY <1>1 DEF Held, Dist, Fwd
<1>3. PICK k \in 0 .. m :
          /\ f = [d EXCEPT !.add = Bwd(n, d.add, k)]
          /\ f \in Rings(n, V)
          /\ Held(n, f) = m - k
          /\ \A i \in 0 .. m - k : At(n, d, i) < t
          /\ \A i \in m - k + 1 .. m : At(n, d, i) >= t
  BY <1>1, DroppedIs
<1>4. Continuous!FutureDropped(d, t) = f
  BY RingSteps DEF Continuous!FutureDropped, Continuous!Min, Dropped, Least
<1> HIDE DEF f
<1>5. /\ f.first = d.first /\ f.x = d.x /\ f.y = d.y /\ f.old = d.old
      /\ f.add = Bwd(n, d.add, k)
  BY <1>3 DEF Rings
<1>6. f.add = Fwd(n, d.first, m - k) /\ f.add \in 0 .. n - 1 /\ Fwd(n, f.add, 1) \in 0 .. n - 1
  <2> HIDE DEF n, m
  <2> QED
    BY <1>1, <1>2, <1>5 DEF Fwd, Bwd
<1>7. /\ room \in Rings(n, V) /\ room.add = Fwd(n, f.add, 1) /\ room.first = d.first
      /\ room.x = d.x /\ room.y = d.y /\ room.old = d.old
  BY <1>3, <1>5, <1>6 DEF Rings
<1>8. \A i \in 0 .. m : Of(n, f, i) = Of(n, d, i) /\ At(n, f, i) = At(n, d, i)
                        /\ Of(n, room, i) = Of(n, d, i)
  BY <1>5, <1>7 DEF Of, At, Pos
<1>9. Continuous!Write(d, t, v) =
         Continuous!Stored(IF room.add = d.first THEN Continuous!Decimated(room) ELSE room, t, v)
  BY <1>4, RingSteps DEF Continuous!Write, Continuous!After
<1>10. CASE m - k < n - 1
  <2>1. room.add # d.first
    <3> HIDE DEF n, m, room
    <3> QED
      BY <1>1, <1>2, <1>6, <1>7, <1>10 DEF Fwd
  <2>2. Continuous!Stored(room, t, v) = Put(n, f, t, v)
    BY <1>3, <1>7 DEF Continuous!Stored, Put, Rings
  <2>3. Spread(n, f)
    <3> SUFFICES ASSUME NEW i \in 0 .. m - k, NEW j \in 0 .. m - k, i <= j
                 PROVE  At(n, f, j) - At(n, f, i) >= j - i
      BY <1>3 DEF Spread
    <3>1. i \in 0 .. m /\ j \in 0 .. m
      BY <1>2
    <3>2. At(n, d, j) - At(n, d, i) >= j - i
      BY <3>1 DEF Spread
    <3> QED
      BY <3>1, <3>2, <1>8
  <2>4. \A i \in 0 .. Held(n, f) : i \in 0 .. m /\ At(n, f, i) < t /\ Of(n, f, i) = Of(n, d, i)
    <3>1. \A i \in 0 .. m - k : i \in 0 .. m
      BY <1>2
    <3> QED
      BY <3>1, <1>3, <1>8
  <2>5. Of(n, f, 0) = Of(n, d, 0) /\ Held(n, f) < n - 1
    BY <1>2, <1>3, <1>8, <1>10
  <2>6. Continuous!Write(d, t, v) = Put(n, f, t, v)
    BY <1>9, <2>1, <2>2
  <2>7. \A i \in 0 .. Held(n, f) : \E j \in 0 .. m : Of(n, f, i) = Of(n, d, j)
    BY <2>4
  <2>8. f = Dropped(n, d, t)
    BY DEF f
  <2>9. \A p \in 0 .. n - 1 : \E q \in 0 .. n - 1 : f.x[p] = d.x[q]
    BY <1>5
  <2> QED
    BY <1>3, <1>5, <2>3, <2>4, <2>5, <2>6, <2>7, <2>8, <2>9
<1>11. CASE m - k = n - 1
  <2> DEFINE c == Continuous!Decimated(room)
             e == [c EXCEPT !.add = Bwd(n, @, 1)]
  <2>1. m = n - 1 /\ k = 0 /\ room.add = d.first
    <3> HIDE DEF n, m, room
    <3> QED
      BY <1>1, <1>2, <1>6, <1>7, <1>11 DEF Fwd
  <2>2. /\ c \in Rings(n, V)
        /\ c.first = Pos(n, room, Gap) /\ c.add = room.add /\ c.old = room.old
        /\ \A i \in 0 .. n - Gap - 1 : Of(n, c, i) = Of(n, room, Stays(i))
        /\ \A i \in 1 .. Gap - 1 : LET p == Pos(n, room, i)
                                   IN  c.x[p] = room.x[p] /\ c.y[p] = room.y[p]
        /\ \A p \in 0 .. n - 1 : \E q \in 0 .. n - 1 : c.x[p] = room.x[q]
    BY <1>7, DecimatedIs
  <2>3. \A i : Pos(n, room, i) = Pos(n, d, i)
    BY <1>7 DEF Pos
  <2> HIDE DEF c, room
  <2>4. /\ Bwd(n, d.first, 1) \in 0 .. n - 1 /\ Fwd(n, Bwd(n, d.first, 1), 1) = d.first
        /\ Dist(n, Pos(n, d, Gap), Bwd(n, d.first, 1)) = n - Gap - 1
    <3> HIDE DEF n, m
    <3> QED
      BY <1>1 DEF Fwd, Bwd, Dist, Pos
  <2>5. /\ e \in Rings(n, V) /\ e.first = Pos(n, d, Gap) /\ e.add = Bwd(n, d.first, 1)
        /\ e.old = d.old /\ e.x = c.x /\ e.y = c.y
    BY <1>7, <2>1, <2>2, <2>3, <2>4 DEF Rings
  <2>6. Held(n, e) = n - Gap - 1
    BY <2>4, <2>5 DEF Held
  <2>7. Continuous!Stored(c, t, v) = Put(n, e, t, v)
    <3> DEFINE X == [c.x EXCEPT ![d.first] = t]
               Y == [c.y EXCEPT ![d.first] = v]
    <3>1. c.add = d.first /\ Fwd(n, e.add, 1) = d.first
      BY <2>1, <2>2, <2>4, <2>5
    <3>2. c = [e EXCEPT !.add = d.first]
      <4>1. \A r \in Rings(n, V) : \A p : r = [[r EXCEPT !.add = p] EXCEPT !.add = r.add]
        BY DEF Rings
      <4> QED
        BY <2>2, <3>1, <4>1
    <3> HIDE DEF X, Y, e
    <3>3. Continuous!Stored(c, t, v) = [c EXCEPT !.x = X, !.y = Y]
      BY <3>1 DEF Continuous!Stored, X, Y
    <3>4. Put(n, e, t, v) = [e EXCEPT !.add = d.first, !.x = X, !.y = Y]
      BY <2>5, <3>1 DEF Put, X, Y
    <3> QED
      BY <3>2, <3>3, <3>4
  <2> HIDE DEF e
  <2>8. \A i \in 0 .. n - Gap - 1 :
           /\ Stays(i) \in 0 .. m
           /\ Of(n, e, i) = Of(n, d, Stays(i)) /\ At(n, e, i) = At(n, d, Stays(i))
    <3> TAKE i \in 0 .. n - Gap - 1
    <3>1. Stays(i) \in 0 .. m
      BY <2>1, StaysIs
    <3>2. Of(n, e, i) = Of(n, c, i)
      BY <2>2, <2>3, <2>5 DEF Of, Pos
    <3>3. Of(n, e, i) = Of(n, d, Stays(i))
      BY <3>1, <3>2, <2>2, <1>8
    <3> QED
      BY <3>1, <3>3 DEF Of, At
  <2>9. Spread(n, e)
    <3> SUFFICES ASSUME NEW i \in 0 .. n - Gap - 1, NEW j \in 0 .. n - Gap - 1, i <= j
                 PROVE  At(n, e, j) - At(n, e, i) >= j - i
      BY <2>6 DEF Spread
    <3>1. Stays(j) - Stays(i) >= j - i
      BY StaysIs
    <3>2. Stays(i) \in 0 .. m /\ Stays(j) \in 0 .. m
      BY <2>8
    <3>3. Stays(i) <= Stays(j)
      BY <3>1, <3>2, <1>2
    <3>4. At(n, d, Stays(j)) - At(n, d, Stays(i)) >= Stays(j) - Stays(i)
      BY <3>2, <3>3 DEF Spread
    <3>5. At(n, d, Stays(j)) \in Int /\ At(n, d, Stays(i)) \in Int
      <4>1. d.x \in [0 .. n - 1 -> Int]
        BY DEF Rings
      <4>2. Pos(n, d, Stays(j)) \in 0 .. n - 1 /\ Pos(n, d, Stays(i)) \in 0 .. n - 1
        <5> HIDE DEF n
        <5> QED
          BY <1>1, <2>1, <3>2 DEF Pos, Fwd
      <4> QED
        BY <4>1, <4>2 DEF At
    <3>6. At(n, e, j) = At(n, d, Stays(j)) /\ At(n, e, i) = At(n, d, Stays(i))
      BY <2>8
    <3> QED
      BY <3>1, <3>2, <3>4, <3>5, <3>6, <1>2
  <2>10. \A i \in 0 .. n - 1 : At(n, d, i) < t
    BY <1>3, <1>11
  <2>11. \A i \in 0 .. Held(n, e) : At(n, e, i) < t
    BY <2>1, <2>6, <2>8, <2>10
  <2>12. Of(n, e, 0) = Of(n, d, 0)
    BY <1>1, <2>8, StaysIs
  <2>13. \A i \in 1 .. Gap - 1 : LET p == Pos(n, d, i) IN e.x[p] = d.x[p] /\ e.y[p] = d.y[p]
    BY <1>7, <2>2, <2>3, <2>5
  <2>14. Continuous!Write(d, t, v) = Put(n, e, t, v)
    BY <1>9, <2>1, <2>7 DEF c
  <2>15. \A i \in 0 .. Held(n, e) : \E j \in 0 .. m : Of(n, e, i) = Of(n, d, j)
    BY <2>6, <2>8
  <2>16. \A p \in 0 .. n - 1 : \E q \in 0 .. n - 1 : e.x[p] = d.x[q]
    BY <1>7, <2>2, <2>5
  <2> QED
    BY <1>1, <2>1, <2>5, <2>6, <2>9, <2>16, <2>10, <2>11, <2>12, <2>13, <2>14, <2>15
<1> QED
  BY <1>1, <1>2, <1>10, <1>11

(* The same by the places of the entries: what the ring holds afterwards.  *)
LEMMA WrittenIs ==
    ASSUME NEW V, NEW d \in Rings(Buffersize, V), Spread(Buffersize, d), NEW t \in Int,
           At(Buffersize, d, 0) < t, NEW v \in V
    PROVE  LET n == Buffersize
               w == Continuous!Write(d, t, v)
               k == Held(n, w)
           IN  /\ w \in Rings(n, V) /\ Spread(n, w) /\ w.old = d.old
               /\ k \in 1 .. n - 1 /\ Of(n, w, k) = <<t, v>> /\ Of(n, w, 0) = Of(n, d, 0)
               /\ \A i \in 0 .. k - 1 :
                     At(n, w, i) < t /\ \E j \in 0 .. Held(n, d) : Of(n, w, i) = Of(n, d, j)
               /\ \A p \in 0 .. n - 1 : w.x[p] = t \/ \E q \in 0 .. n - 1 : w.x[p] = d.x[q]
               /\ \/ /\ w.first = d.first /\ k <= Held(n, d) + 1
                     /\ \A i \in 0 .. n - 1 : i # k => Of(n, w, i) = Of(n, d, i)
                     /\ \A i \in k .. Held(n, d) : At(n, d, i) >= t
                  \/ /\ Held(n, d) = n - 1 /\ k = n - Gap
                     /\ w.first = Pos(n, d, Gap)
                     /\ \A i \in 0 .. n - 1 : At(n, d, i) < t
                     /\ \A i \in 1 .. Gap - 1 : Of(n, w, n - Gap + i) = Of(n, d, i)
<1> DEFINE n == Buffersize
           m == Held(n, d)
           w == Continuous!Write(d, t, v)
           k == Held(n, w)
<1>1. /\ n \in Sizes /\ n \in Nat /\ n >= 5 /\ Gap \in 1 .. n - 3
      /\ d.first \in 0 .. n - 1
  BY RingConstants DEF Rings
<1>2. PICK e \in Rings(n, V) :
          /\ w = Put(n, e, t, v)
          /\ Spread(n, e) /\ Held(n, e) < n - 1
          /\ \A i \in 0 .. Held(n, e) : At(n, e, i) < t
          /\ e.old = d.old
          /\ \A p \in 0 .. n - 1 : \E q \in 0 .. n - 1 : e.x[p] = d.x[q]
          /\ Of(n, e, 0) = Of(n, d, 0)
          /\ \A i \in 0 .. Held(n, e) : \E j \in 0 .. m : Of(n, e, i) = Of(n, d, j)
          /\ \/ e = Dropped(n, d, t)
             \/ /\ m = n - 1 /\ Held(n, e) = n - Gap - 1
                /\ \A i \in 0 .. n - 1 : At(n, d, i) < t
                /\ e.first = Pos(n, d, Gap)
                /\ \A i \in 1 .. Gap - 1 :
                      LET p == Pos(n, d, i) IN e.x[p] = d.x[p] /\ e.y[p] = d.y[p]
  BY WriteIs
<1> DEFINE h == Held(n, e)
<1>3. /\ w \in Rings(n, V) /\ Spread(n, w)
      /\ w.first = e.first /\ w.old = e.old
      /\ k = h + 1
      /\ \A i \in 0 .. h : Of(n, w, i) = Of(n, e, i)
      /\ Of(n, w, h + 1) = <<t, v>>
      /\ w.add = Pos(n, e, h + 1)
      /\ \A p \in 0 .. n - 1 \ {w.add} : w.x[p] = e.x[p] /\ w.y[p] = e.y[p]
  BY <1>1, <1>2, PutIs
<1>4. h \in 0 .. n - 2
  <2>1. e.first \in 0 .. n - 1 /\ e.add \in 0 .. n - 1
    BY DEF Rings
  <2>2. Dist(n, e.first, e.add) \in 0 .. n - 1
    <3> HIDE DEF n
    <3> QED
      BY <1>1, <2>1 DEF Dist
  <2> QED
    BY <1>1, <1>2, <2>2 DEF Held
<1> HIDE DEF w, k, h
<1>5. \A i \in 0 .. n - 1 : i # k => Of(n, w, i) = <<e.x[Pos(n, e, i)], e.y[Pos(n, e, i)]>>
  <2> TAKE i \in 0 .. n - 1
  <2> SUFFICES ASSUME i # k
               PROVE  Of(n, w, i) = <<e.x[Pos(n, e, i)], e.y[Pos(n, e, i)]>>
    OBVIOUS
  <2>1. e.first \in 0 .. n - 1 /\ k \in 0 .. n - 1
    BY <1>1, <1>3, <1>4 DEF Rings
  <2>2. Fwd(n, e.first, i) \in 0 .. n - 1 /\ Fwd(n, e.first, i) # Fwd(n, e.first, k)
    <3> HIDE DEF n
    <3>1. Fwd(n, e.first, i) \in 0 .. n - 1
      BY <1>1, <2>1 DEF Fwd
    <3> QED
      BY <1>1, <2>1, <3>1, PositionsDiffer
  <2>3. Pos(n, w, i) = Pos(n, e, i) /\ Pos(n, e, i) \in 0 .. n - 1 \ {w.add}
    BY <1>3, <2>2 DEF Pos
  <2> QED
    BY <1>3, <2>3 DEF Of
<1>6. k \in 1 .. n - 1 /\ Of(n, w, k) = <<t, v>> /\ Of(n, w, 0) = Of(n, d, 0)
  BY <1>1, <1>2, <1>3, <1>4
<1>7. \A i \in 0 .. k - 1 : At(n, w, i) < t /\ \E j \in 0 .. m : Of(n, w, i) = Of(n, d, j)
  <2> TAKE i \in 0 .. k - 1
  <2>1. i \in 0 .. h
    BY <1>1, <1>3, <1>4
  <2>2. Of(n, w, i) = Of(n, e, i) /\ At(n, e, i) < t
    BY <2>1, <1>2, <1>3 DEF h
  <2>3. At(n, w, i) = At(n, e, i)
    BY <2>2 DEF Of, At
  <2> QED
    BY <2>1, <2>2, <2>3, <1>2 DEF h
<1>8. \A p \in 0 .. n - 1 : w.x[p] = t \/ \E q \in 0 .. n - 1 : w.x[p] = d.x[q]
  <2> TAKE p \in 0 .. n - 1
  <2>1. CASE p = w.add
    <3>1. w.x[p] = t
      BY <1>3, <2>1 DEF Of, Pos
    <3> QED
      BY <3>1
  <2>2. CASE p # w.add
    BY <1>2, <1>3, <2>2
  <2> QED
    BY <2>1, <2>2
<1>9. CASE e = Dropped(n, d, t)
  <2>1. PICK l \in 0 .. m :
          /\ e = [d EXCEPT !.add = Bwd(n, d.add, l)]
          /\ h = m - l
          /\ \A i \in m - l + 1 .. m : At(n, d, i) >= t
    BY <1>1, <1>9, DroppedIs DEF h
  <2>2. e.first = d.first /\ e.x = d.x /\ e.y = d.y
    BY <2>1 DEF Rings
  <2>3. m \in Int
    <3>1. d.first \in 0 .. n - 1 /\ d.add \in 0 .. n - 1
      BY DEF Rings
    <3>2. Dist(n, d.first, d.add) \in Int
      <4> HIDE DEF n
      <4> QED
        BY <1>1, <3>1 DEF Dist
    <3> QED
      BY <3>2 DEF Held
  <2>4. \A i \in 0 .. n - 1 : i # k => Of(n, w, i) = Of(n, d, i)
    BY <1>5, <2>2 DEF Of, Pos
  <2> HIDE DEF m
  <2>5. k <= m + 1 /\ \A i \in k .. m : At(n, d, i) >= t
    BY <1>3, <2>1, <2>3
  <2> QED
    BY <1>2, <1>3, <1>6, <1>7, <1>8, <2>2, <2>4, <2>5 DEF w, k, m
<1>10. CASE /\ m = n - 1 /\ h = n - Gap - 1
            /\ \A i \in 0 .. n - 1 : At(n, d, i) < t
            /\ e.first = Pos(n, d, Gap)
            /\ \A i \in 1 .. Gap - 1 :
                  LET p == Pos(n, d, i) IN e.x[p] = d.x[p] /\ e.y[p] = d.y[p]
  <2>1. ASSUME NEW i \in 1 .. Gap - 1
        PROVE  Of(n, w, n - Gap + i) = Of(n, d, i)
    <3>1. n - Gap + i \in 0 .. n - 1 /\ n - Gap + i # k
      <4> HIDE DEF n
      <4> QED
        BY <1>1, <1>3, <1>10
    <3>2. Pos(n, e, n - Gap + i) = Pos(n, d, i)
      <4>1. Fwd(n, Fwd(n, d.first, Gap), n - Gap + i) = Fwd(n, d.first, i)
        <5> HIDE DEF n
        <5> QED
          BY <1>1 DEF Fwd
      <4> QED
        BY <4>1, <1>10 DEF Pos
    <3> QED
      BY <3>1, <3>2, <1>5, <1>10 DEF Of
  <2>2. k = n - Gap
    BY <1>1, <1>3, <1>10
  <2> QED
    BY <1>2, <1>3, <1>6, <1>7, <1>8, <1>10, <2>1, <2>2 DEF w, k
<1> QED
  BY <1>2, <1>9, <1>10 DEF h

(* delayRead2: the search ends between two neighbouring entries that x     *)
(* lies between.  These are held by the ring, or they were dropped and the *)
(* search, from one that was dropped as well, did not leave those.         *)
LEMMA LookIs ==
    ASSUME NEW V, NEW d \in Rings(Buffersize, V), Spread(Buffersize, d), NEW x \in Int,
           At(Buffersize, d, 0) < x, x <= At(Buffersize, d, Held(Buffersize, d)),
           NEW o \in 0 .. Buffersize - 1, d.old = Pos(Buffersize, d, o)
    PROVE  LET n == Buffersize
           IN  \E q \in 1 .. n - 1 :
                 /\ Continuous!Look(d, x) = Pos(n, d, q)
                 /\ Continuous!Before(Pos(n, d, q)) = Pos(n, d, q - 1)
                 /\ At(n, d, q - 1) < x /\ x <= At(n, d, q)
                 /\ \/ q <= Held(n, d)
                    \/ /\ q - 1 > Held(n, d) /\ o > Held(n, d)
                       /\ \/ At(n, d, o) < x /\ o <= q - 1
                          \/ q <= o /\ \A i \in q .. o : x <= At(n, d, i)
<1> DEFINE n == Buffersize
           m == Held(n, d)
           F == {k \in 0 .. n - 1 : x <= d.x[Fwd(n, d.old, k)]}
           B == {k \in 0 .. n - 1 : x > d.x[Bwd(n, d.old, k)] \/ Bwd(n, d.old, k) = d.first}
<1>1. /\ n \in Sizes /\ n \in Nat /\ n >= 5
      /\ d.first \in 0 .. n - 1 /\ d.add \in 0 .. n - 1 /\ d.old \in 0 .. n - 1
  BY RingConstants DEF Rings
<1>2. m \in 0 .. n - 1 /\ Pos(n, d, m) = d.add /\ Pos(n, d, 0) = d.first
  <2> HIDE DEF n
  <2> QED
    BY <1>1 DEF Held, Dist, Fwd, Pos
<1> HIDE DEF m
<1>3. \A i \in 0 .. n - 1 : Pos(n, d, i) \in 0 .. n - 1 /\ At(n, d, i) \in Int
  <2> TAKE i \in 0 .. n - 1
  <2>1. Pos(n, d, i) \in 0 .. n - 1
    <3> HIDE DEF n
    <3> QED
      BY <1>1 DEF Pos, Fwd
  <2>2. d.x \in [0 .. n - 1 -> Int]
    BY DEF Rings
  <2> QED
    BY <2>1, <2>2 DEF At
<1>4. m >= 1
  <2>1. CASE m = 0
    <3>1. At(n, d, 0) < x /\ x <= At(n, d, 0) /\ At(n, d, 0) \in Int
      BY <2>1, <1>1, <1>3 DEF m
    <3> QED
      BY <3>1
  <2> QED
    BY <1>2, <2>1
<1>5. \A q \in 1 .. n - 1 : Bwd(n, Pos(n, d, q), 1) = Pos(n, d, q - 1)
  <2> HIDE DEF n
  <2> QED
    BY <1>1 DEF Pos, Fwd, Bwd
<1>6. \A i \in 0 .. n - 1 : d.x[Pos(n, d, i)] = At(n, d, i)
  BY DEF At
<1>7. ~(x > d.x[d.add])
  <2>1. d.x[d.add] = At(n, d, m) /\ At(n, d, m) \in Int /\ x <= At(n, d, m)
    BY <1>2, <1>3, <1>6 DEF m
  <2> QED
    BY <2>1
<1>8. SUFFICES \E q \in 1 .. n - 1 :
         /\ Continuous!Look(d, x) = Pos(n, d, q)
         /\ At(n, d, q - 1) < x /\ x <= At(n, d, q)
         /\ q <= m \/ /\ q - 1 > m /\ o > m
                      /\ \/ At(n, d, o) < x /\ o <= q - 1
                         \/ q <= o /\ \A i \in q .. o : x <= At(n, d, i)
  <2>1. \A i : Continuous!Before(i) = Bwd(n, i, 1)
    BY RingSteps DEF Continuous!Before
  <2> HIDE DEF n
  <2> QED
    BY <1>5, <2>1 DEF m, n
<1>9. At(n, d, m) >= x /\ At(n, d, 0) < x
  <2>1. At(n, d, m) \in Int /\ x <= At(n, d, m)
    BY <1>2, <1>3 DEF m
  <2> QED
    BY <2>1
<1>10. d.old = Pos(n, d, o) /\ o \in 0 .. n - 1
  OBVIOUS
<1>20. CASE x > d.x[d.old]
  <2>1. Continuous!Look(d, x) = Fwd(n, d.old, Least(F))
    BY <1>7, <1>20, RingSteps DEF Continuous!Look, Continuous!Min, Least
  <2>2. \A k \in 0 .. n - 1 : Fwd(n, d.old, k) = IF o + k < n THEN Pos(n, d, o + k) ELSE Pos(n, d, o + k - n)
    <3> HIDE DEF n
    <3> QED
      BY <1>1, <1>10 DEF Pos, Fwd
  <2>3. At(n, d, o) < x
    BY <1>3, <1>6, <1>20
  <2>4. F # {}
    <3>1. CASE o <= m
      <4>1. m - o \in 0 .. n - 1 /\ Fwd(n, d.old, m - o) = Pos(n, d, m)
        <5>1. m - o \in 0 .. n - 1 /\ o + (m - o) = m /\ m < n
          BY <1>1, <1>2, <3>1
        <5> QED
          BY <5>1, <2>2
      <4> QED
        BY <4>1, <1>2, <1>6, <1>9
    <3>2. CASE o > m
      <4>1. m + n - o \in 0 .. n - 1 /\ Fwd(n, d.old, m + n - o) = Pos(n, d, m)
        <5>1. m + n - o \in 0 .. n - 1 /\ o + (m + n - o) - n = m /\ ~(o + (m + n - o) < n)
          BY <1>1, <1>2, <3>2
        <5> QED
          BY <5>1, <2>2
      <4> QED
        BY <4>1, <1>2, <1>6, <1>9
    <3> QED
      BY <1>2, <3>1, <3>2
  <2>5. PICK k \in F : k = Least(F) /\ \A i \in F : k <= i
    <3>1. F \subseteq Nat
      OBVIOUS
    <3> HIDE DEF F
    <3> QED
      BY <2>4, <3>1, LeastIs
  <2>6. \A i \in 0 .. k - 1 : d.x[Fwd(n, d.old, i)] < x
    <3> TAKE i \in 0 .. k - 1
    <3>1. i \in 0 .. n - 1 /\ ~(k <= i)
      BY <1>1, <2>5
    <3>2. ~(x <= d.x[Fwd(n, d.old, i)])
      BY <3>1, <2>5
    <3>3. d.x[Fwd(n, d.old, i)] \in Int
      <4>1. Fwd(n, d.old, i) \in 0 .. n - 1
        <5> HIDE DEF n
        <5> QED
          BY <1>1, <3>1 DEF Fwd
      <4>2. d.x \in [0 .. n - 1 -> Int]
        BY DEF Rings
      <4> QED
        BY <4>1, <4>2
    <3> QED
      BY <3>2, <3>3
  <2>7. k \in 0 .. n - 1 /\ x <= d.x[Fwd(n, d.old, k)]
    BY <2>5
  <2>8. k >= 1
    <3>1. CASE k = 0
      <4>1. Fwd(n, d.old, 0) = Pos(n, d, o)
        BY <2>2, <1>1, <3>1
      <4>2. x <= At(n, d, o) /\ At(n, d, o) \in Int
        BY <2>7, <3>1, <4>1, <1>3, <1>6
      <4> QED
        BY <2>3, <4>2
    <3> QED
      BY <2>7, <3>1
  <2>9. CASE o + k < n
    <3> DEFINE q == o + k
    <3>1. q \in 1 .. n - 1 /\ o <= q - 1 /\ k - 1 \in 0 .. k - 1 /\ k - 1 \in 0 .. n - 1
          /\ o + (k - 1) = q - 1 /\ q - 1 < n /\ q - 1 \in 0 .. n - 1
      BY <1>1, <2>7, <2>8, <2>9
    <3>2. Fwd(n, d.old, k) = Pos(n, d, q) /\ Fwd(n, d.old, k - 1) = Pos(n, d, q - 1)
      BY <2>2, <2>7, <2>9, <3>1
    <3>3. x <= At(n, d, q) /\ At(n, d, q - 1) < x
      <4>1. d.x[Fwd(n, d.old, k - 1)] < x
        BY <2>6, <3>1
      <4> QED
        BY <2>7, <3>1, <3>2, <4>1, <1>6
    <3>4. Continuous!Look(d, x) = Pos(n, d, q)
      BY <2>1, <2>5, <3>2
    <3>5. q - 1 # m
      <4>1. At(n, d, m) \in Int
        BY <1>2, <1>3
      <4> QED
        BY <1>9, <3>1, <3>3, <4>1
    <3>6. o <= m => q <= m
      <4> SUFFICES ASSUME o <= m, q > m
                   PROVE  FALSE
        BY <1>2, <3>1
      <4>1. m - o \in 0 .. k - 1 /\ m - o \in 0 .. n - 1 /\ o + (m - o) = m /\ m < n
        BY <1>1, <1>2, <2>7
      <4>2. Fwd(n, d.old, m - o) = Pos(n, d, m)
        BY <2>2, <4>1
      <4>3. At(n, d, m) < x /\ At(n, d, m) \in Int
        BY <2>6, <4>1, <4>2, <1>2, <1>3, <1>6
      <4> QED
        BY <4>3, <1>9
    <3> HIDE DEF q
    <3>7. q <= m \/ (q - 1 > m /\ o > m)
      BY <1>2, <3>1, <3>5, <3>6
    <3> QED
      BY <2>3, <3>1, <3>3, <3>4, <3>7
  <2>10. CASE o + k >= n
    <3> DEFINE q == o + k - n
    <3>1. q \in 0 .. n - 1 /\ ~(o + k < n) /\ k - 1 \in 0 .. k - 1 /\ k - 1 \in 0 .. n - 1
      BY <1>1, <2>7, <2>8, <2>10
    <3>2. Fwd(n, d.old, k) = Pos(n, d, q)
      BY <2>2, <2>7, <3>1
    <3>3. x <= At(n, d, q)
      BY <2>7, <3>1, <3>2, <1>6
    <3>4. q >= 1
      <4>1. At(n, d, 0) \in Int /\ At(n, d, 0) < x
        BY <1>1, <1>3, <1>9
      <4>2. q # 0
        BY <3>3, <4>1
      <4> QED
        BY <3>1, <4>2
    <3>5. q - 1 \in 0 .. n - 1 /\ Fwd(n, d.old, k - 1) = Pos(n, d, q - 1)
      <4>1. q - 1 \in 0 .. n - 1 /\ ~(o + (k - 1) < n) /\ o + (k - 1) - n = q - 1
        BY <3>1, <3>4, <1>1, <2>7
      <4> QED
        BY <4>1, <3>1, <2>2
    <3>6. At(n, d, q - 1) < x
      <4>1. d.x[Fwd(n, d.old, k - 1)] < x
        BY <2>6, <3>1
      <4> QED
        BY <3>5, <4>1, <1>6
    <3>7. q <= m
      <4> SUFFICES ASSUME q > m
                   PROVE  FALSE
        BY <1>2, <3>1
      <4>1. m + n - o \in 0 .. k - 1 /\ m + n - o \in 0 .. n - 1 /\ ~(o + (m + n - o) < n)
            /\ o + (m + n - o) - n = m
        BY <1>1, <1>2, <2>7, <3>1
      <4>2. Fwd(n, d.old, m + n - o) = Pos(n, d, m)
        BY <2>2, <4>1
      <4>3. At(n, d, m) < x /\ At(n, d, m) \in Int
        BY <2>6, <4>1, <4>2, <1>2, <1>3, <1>6
      <4> QED
        BY <4>3, <1>9
    <3>8. Continuous!Look(d, x) = Pos(n, d, q) /\ q \in 1 .. n - 1
      BY <2>1, <2>5, <3>1, <3>2, <3>4
    <3> HIDE DEF q
    <3> QED
      BY <3>3, <3>6, <3>7, <3>8
  <2> QED
    BY <1>1, <2>7, <2>9, <2>10
<1>30. CASE ~(x > d.x[d.old])
  <2>1. Continuous!Look(d, x) = Fwd(n, Bwd(n, d.old, Least(B)), 1)
    BY <1>7, <1>30, RingSteps DEF Continuous!Look, Continuous!After, Continuous!Min, Least
  <2>2. \A k \in 0 .. o : Bwd(n, d.old, k) = Pos(n, d, o - k)
    <3> HIDE DEF n
    <3> QED
      BY <1>1, <1>10 DEF Pos, Fwd, Bwd
  <2>3. x <= At(n, d, o)
    BY <1>3, <1>6, <1>30
  <2>4. o \in B
    <3>1. o \in 0 .. o /\ o - o = 0 /\ o \in 0 .. n - 1
      BY <1>1
    <3> QED
      BY <2>2, <3>1, <1>2
  <2>5. PICK k \in B : k = Least(B) /\ \A i \in B : k <= i
    <3>1. F \subseteq Nat /\ B \subseteq Nat /\ B # {}
      BY <2>4
    <3> HIDE DEF B
    <3> QED
      BY <3>1, LeastIs
  <2>6. k \in 0 .. o
    BY <1>1, <2>4, <2>5
  <2>7. Bwd(n, d.old, k) = Pos(n, d, o - k) /\ o - k \in 0 .. n - 1
    BY <1>1, <2>2, <2>6
  <2>8. At(n, d, o - k) < x
    <3>1. CASE x > d.x[Bwd(n, d.old, k)]
      <4>1. x > At(n, d, o - k) /\ At(n, d, o - k) \in Int
        BY <2>7, <3>1, <1>3, <1>6
      <4> QED
        BY <4>1
    <3>2. CASE Bwd(n, d.old, k) = d.first
      <4>1. Fwd(n, d.first, o - k) = Fwd(n, d.first, 0) /\ 0 \in 0 .. n - 1
        BY <2>7, <3>2, <1>1, <1>2 DEF Pos
      <4>2. o - k = 0
        <5> HIDE DEF n
        <5> QED
          BY <1>1, <2>7, <4>1, PositionsDiffer
      <4> QED
        BY <4>2, <1>9
    <3> QED
      BY <2>5, <3>1, <3>2
  <2>9. \A i \in 0 .. k - 1 : x <= At(n, d, o - i)
    <3> TAKE i \in 0 .. k - 1
    <3>1. i \in 0 .. n - 1 /\ ~(k <= i) /\ i \in 0 .. o /\ o - i \in 0 .. n - 1
      BY <1>1, <2>6
    <3>2. ~(x > d.x[Bwd(n, d.old, i)])
      BY <3>1, <2>5
    <3> QED
      BY <3>1, <3>2, <2>2, <1>3, <1>6
  <2>10. k >= 1
    <3>1. CASE k = 0
      <4>1. At(n, d, o) < x /\ At(n, d, o) \in Int
        BY <2>8, <3>1, <1>3
      <4> QED
        BY <2>3, <4>1
    <3> QED
      BY <2>6, <3>1
  <2> DEFINE q == o - k + 1
  <2>11. q \in 1 .. n - 1 /\ q - 1 = o - k /\ q <= o
    BY <1>1, <2>6, <2>10
  <2>12. Continuous!Look(d, x) = Pos(n, d, q)
    <3>1. Fwd(n, Pos(n, d, o - k), 1) = Pos(n, d, q)
      <4> HIDE DEF n
      <4> QED
        BY <1>1, <2>7, <2>11 DEF Pos, Fwd
    <3> QED
      BY <2>1, <2>5, <2>7, <3>1
  <2>13. \A i \in q .. o : x <= At(n, d, i)
    <3> TAKE i \in q .. o
    <3>1. o - i \in 0 .. k - 1 /\ o - (o - i) = i
      BY <1>1, <2>6
    <3> QED
      BY <3>1, <2>9
  <2>14. At(n, d, q - 1) < x /\ x <= At(n, d, q)
    BY <2>8, <2>11, <2>13
  <2>15. q - 1 # m
    <3>1. At(n, d, m) \in Int
      BY <1>2, <1>3
    <3> QED
      BY <1>9, <2>11, <2>14, <3>1
  <2> HIDE DEF q
  <2>16. q <= m \/ (q - 1 > m /\ o > m)
    BY <1>2, <2>11, <2>15
  <2> QED
    BY <2>11, <2>12, <2>13, <2>14, <2>16
<1> QED
  BY <1>20, <1>30

----------------------------------------------------------------------------
(* What the ring holds of the signal.                                      *)

Entries == 0 .. Buffersize - 1
Newest(d) == Held(Buffersize, d)
When(d, i) == At(Buffersize, d, i)
What(d, i) == Of(Buffersize, d, i)

(* The first entry lies a long time before some start of a run, and no     *)
(* other one before all of them.                                           *)
WellFormed(d) ==
    /\ d \in Rings(Buffersize, Values)
    /\ \A p \in Entries : d.x[p] \in Continuous!Instants
    /\ Spread(Buffersize, d)
    /\ \E s \in Starts, e \in Delays : When(d, 0) = s - e - Reach
    /\ \A i \in 1 .. Newest(d) : \E s \in Starts : s <= When(d, i)

(* The ring holds nothing but h, and the oldest and the newest of it. *)
Remembers(d, h) ==
    /\ \A i \in 0 .. Newest(d) : What(d, i) \in h
    /\ \A s \in h : When(d, 0) <= s[1] /\ s[1] <= When(d, Newest(d))

(* The instants a delay deals with.                                        *)
LEMMA InstantsAre ==
    /\ Continuous!Instants \subseteq Int
    /\ \A t \in Continuous!Times, d \in Delays :
          {t, t - d, t - d - Reach} \subseteq Continuous!Instants
<1>1. Horizon \in Nat /\ Delays \subseteq Nat /\ Reach \in Nat
  BY RingsAssumption DEF Continuous!DelayAssumption
<1> QED
  BY <1>1 DEF Continuous!Instants, Continuous!Times

(* Entries are at instants, in order.                                      *)
LEMMA WhenIs ==
    ASSUME NEW V, NEW d \in Rings(Buffersize, V)
    PROVE  /\ Newest(d) \in Entries
           /\ \A i \in Entries : Pos(Buffersize, d, i) \in Entries /\ When(d, i) \in Int
           /\ \A i : What(d, i)[1] = When(d, i)
           /\ Pos(Buffersize, d, Newest(d)) = d.add /\ Pos(Buffersize, d, 0) = d.first
           /\ \A p \in Entries : \E i \in Entries : p = Pos(Buffersize, d, i)
<1> DEFINE n == Buffersize
<1>1. /\ n \in Nat /\ n >= 5
      /\ d.first \in 0 .. n - 1 /\ d.add \in 0 .. n - 1
  BY RingConstants DEF Rings
<1>2. /\ Dist(n, d.first, d.add) \in 0 .. n - 1
      /\ Fwd(n, d.first, Dist(n, d.first, d.add)) = d.add
      /\ Fwd(n, d.first, 0) = d.first
      /\ \A i \in 0 .. n - 1 : Fwd(n, d.first, i) \in 0 .. n - 1
      /\ \A p \in 0 .. n - 1 : Dist(n, d.first, p) \in 0 .. n - 1 /\ p = Fwd(n, d.first, Dist(n, d.first, p))
  <2> HIDE DEF n
  <2> QED
    BY <1>1 DEF Dist, Fwd
<1>3. d.x \in [0 .. n - 1 -> Int]
  BY DEF Rings
<1>4. \A i \in 0 .. n - 1 : d.x[Fwd(n, d.first, i)] \in Int
  BY <1>2, <1>3
<1>5. \A i : What(d, i)[1] = When(d, i)
  BY DEF What, When, Of, At
<1> QED
  BY <1>2, <1>4, <1>5 DEF Newest, Entries, When, At, Pos, Held

(* Whatever is read lies after the first entry. *)
LEMMA FirstIsBefore ==
    ASSUME NEW d, WellFormed(d), NEW t \in Int, NEW s \in Starts, s <= t, NEW e \in Delays
    PROVE  When(d, 0) < t - e /\ When(d, 0) < t
<1>1. /\ Starts \subseteq 0 .. Horizon /\ Delays \subseteq Nat /\ Reach \in Nat /\ Horizon \in Nat
      /\ \A p, q \in Starts, f, g \in Delays : p - f - Reach < q - g
  BY RingsAssumption DEF Continuous!DelayAssumption
<1>2. PICK p \in Starts, f \in Delays : When(d, 0) = p - f - Reach
  BY DEF WellFormed
<1>3. p - f - Reach < s - e
  BY <1>1
<1>4. p \in Int /\ f \in Nat /\ e \in Nat /\ s \in Int
  BY <1>1
<1> QED
  BY <1>1, <1>2, <1>3, <1>4

(* A write of v at t, and a read of what was delay ago, by an evaluation of *)
(* a run that began at origin.                                             *)
GoesOn(d, h, t, v, origin, delay) ==
    /\ WellFormed(d) /\ t \in Continuous!Times /\ v \in Values
    /\ origin \in Starts /\ origin <= t /\ delay \in Delays
    /\ h \in SUBSET (Continuous!Instants \X Values)
    /\ \A i \in 0 .. Newest(d) : When(d, i) < t => What(d, i) \in h
    /\ \A s \in h : When(d, 0) <= s[1]

(* An evaluation at t writes v to a ring that held h as far as before t. *)
LEMMA WriteGoesOn ==
    ASSUME NEW d, NEW h, NEW t, NEW v, NEW origin, NEW delay, GoesOn(d, h, t, v, origin, delay)
    PROVE  LET w == Continuous!Write(d, t, v)
               g == Continuous!Heard(h, t, v)
           IN  /\ WellFormed(w) /\ Remembers(w, g)
               /\ When(w, Newest(w)) = t /\ Newest(w) \in 1 .. Buffersize - 1
               /\ g \in SUBSET (Continuous!Instants \X Values)
<1> /\ WellFormed(d) /\ t \in Continuous!Times /\ v \in Values
    /\ origin \in Starts /\ origin <= t /\ delay \in Delays
    /\ h \in SUBSET (Continuous!Instants \X Values)
    /\ \A i \in 0 .. Newest(d) : When(d, i) < t => What(d, i) \in h
    /\ \A s \in h : When(d, 0) <= s[1]
  BY DEF GoesOn
<1> DEFINE n == Buffersize
           w == Continuous!Write(d, t, v)
           g == Continuous!Heard(h, t, v)
           m == Newest(d)
           k == Newest(w)
<1>1. /\ d \in Rings(n, Values) /\ Spread(n, d)
      /\ \A p \in Entries : d.x[p] \in Continuous!Instants
  BY DEF WellFormed
<1>2. t \in Int /\ t \in Continuous!Instants /\ Continuous!Instants \subseteq Int
  <2>1. t \in Continuous!Instants
    BY InstantsAre
  <2> QED
    BY <2>1, InstantsAre
<1>3. When(d, 0) < t
  BY <1>2, FirstIsBefore
<1>4. /\ w \in Rings(n, Values) /\ Spread(n, w)
      /\ k \in 1 .. n - 1 /\ What(w, k) = <<t, v>> /\ What(w, 0) = What(d, 0)
      /\ \A i \in 0 .. k - 1 : When(w, i) < t /\ \E j \in 0 .. m : What(w, i) = What(d, j)
      /\ \A p \in Entries : w.x[p] = t \/ \E q \in Entries : w.x[p] = d.x[q]
  BY <1>1, <1>2, <1>3, WrittenIs DEF When, What, Newest, Entries
<1> HIDE DEF w, m, k
<1>5. \A i : What(w, i)[1] = When(w, i) /\ What(d, i)[1] = When(d, i)
  BY <1>1, <1>4, WhenIs
<1>6. When(w, k) = t /\ When(w, 0) = When(d, 0)
  BY <1>4, <1>5
<1>7. m \in Entries /\ k \in Entries /\ n \in Nat
      /\ \A i \in Entries : When(d, i) \in Int /\ When(w, i) \in Int
  BY <1>1, <1>4, WhenIs, RingConstants DEF m, k
<1>8. WellFormed(w)
  <2>1. \A p \in Entries : w.x[p] \in Continuous!Instants
    BY <1>1, <1>2, <1>4
  <2>2. \E s \in Starts, e \in Delays : When(w, 0) = s - e - Reach
    BY <1>6 DEF WellFormed
  <2>3. ASSUME NEW i \in 1 .. k
        PROVE  \E s \in Starts : s <= When(w, i)
    <3>1. CASE i = k
      BY <1>6, <3>1
    <3>2. CASE i # k
      <4>1. i \in 0 .. k - 1 /\ i \in Entries /\ 0 \in 0 .. k /\ i \in 0 .. k /\ 0 \in Entries
        BY <1>7, <3>2 DEF Entries
      <4>2. PICK j \in 0 .. m : What(w, i) = What(d, j)
        BY <1>4, <4>1
      <4>3. When(w, i) = When(d, j)
        BY <1>5, <4>2
      <4>4. When(w, i) - When(w, 0) >= i - 0
        BY <1>4, <4>1 DEF Spread, When, Newest, k
      <4>5. j # 0
        BY <1>6, <1>7, <4>1, <4>3, <4>4
      <4>6. j \in 1 .. m
        BY <4>5, <1>7 DEF Entries
      <4> QED
        BY <4>3, <4>6 DEF WellFormed, m
    <3> QED
      BY <3>1, <3>2
  <2> QED
    BY <1>4, <2>1, <2>2, <2>3 DEF WellFormed, k
<1>9. \A i \in 0 .. k : What(w, i) \in g
  <2> TAKE i \in 0 .. k
  <2>1. CASE i = k
    BY <1>4, <2>1 DEF Continuous!Heard
  <2>2. CASE i # k
    <3>1. i \in 0 .. k - 1
      BY <1>7, <2>2 DEF Entries
    <3>2. PICK j \in 0 .. m : What(w, i) = What(d, j) /\ When(w, i) < t
      BY <1>4, <3>1
    <3>3. When(w, i) = When(d, j) /\ What(d, j)[1] < t
      BY <1>5, <3>2
    <3>4. What(d, j) \in h
      BY <3>2, <3>3 DEF m
    <3> QED
      BY <3>2, <3>3, <3>4 DEF Continuous!Heard
  <2> QED
    BY <2>1, <2>2
<1>10. \A s \in g : When(w, 0) <= s[1] /\ s[1] <= When(w, k)
  <2> TAKE s \in g
  <2>1. CASE s = <<t, v>>
    <3>1. 0 \in Entries
      BY <1>7 DEF Entries
    <3>2. When(w, 0) \in Int /\ When(w, 0) < t
      BY <3>1, <1>3, <1>6, <1>7
    <3> QED
      BY <1>2, <1>6, <2>1, <3>2
  <2>2. CASE s \in h /\ s[1] < t
    <3>1. s[1] \in Int
      BY <2>2, <1>2
    <3> QED
      BY <1>2, <1>6, <2>2, <3>1
  <2> QED
    BY <2>1, <2>2 DEF Continuous!Heard
<1>11. g \in SUBSET (Continuous!Instants \X Values)
  BY <1>2 DEF Continuous!Heard
<1> QED
  BY <1>4, <1>6, <1>8, <1>9, <1>10, <1>11 DEF Remembers, k, w

(* The same, of hypotheses that are known one by one. *)
LEMMA RingGoesOn ==
    ASSUME NEW d, NEW h, WellFormed(d), NEW t \in Continuous!Times, NEW v \in Values,
           NEW origin \in Starts, origin <= t, NEW delay \in Delays,
           h \in SUBSET (Continuous!Instants \X Values),
           \A i \in 0 .. Newest(d) : When(d, i) < t => What(d, i) \in h,
           \A s \in h : When(d, 0) <= s[1]
    PROVE  LET w == Continuous!Write(d, t, v)
               g == Continuous!Heard(h, t, v)
           IN  /\ WellFormed(w) /\ Remembers(w, g)
               /\ When(w, Newest(w)) = t /\ Newest(w) \in 1 .. Buffersize - 1
               /\ g \in SUBSET (Continuous!Instants \X Values)
<1>1. GoesOn(d, h, t, v, origin, delay)
  BY DEF GoesOn
<1> QED
  BY <1>1, WriteGoesOn

(* delayIni2: the first evaluation finds the ring with its first entry. *)
LEMMA ReadyIs ==
    ASSUME NEW d \in Rings(Buffersize, Values), \A p \in Entries : d.x[p] \in Continuous!Instants,
           NEW t \in Starts, NEW e \in Delays, NEW v \in Values
    PROVE  LET b == t - e - Reach
               r == Continuous!Initialised(d, b, t, v)
           IN  /\ WellFormed(r) /\ r.old = Pos(Buffersize, r, 1) /\ Newest(r) = 1
               /\ \A i \in 0 .. Newest(r) : When(r, i) < t => What(r, i) \in {<<b, v>>}
               /\ \A s \in {<<b, v>>} : When(r, 0) <= s[1]
               /\ {<<b, v>>} \in SUBSET (Continuous!Instants \X Values)
<1> DEFINE n == Buffersize
           b == t - e - Reach
           r == Continuous!Initialised(d, b, t, v)
<1>1. /\ n \in Nat /\ n >= 5
      /\ Starts \subseteq Continuous!Times /\ t \in Int /\ e \in Nat /\ Reach \in Nat
      /\ b < t - e
  BY RingConstants, RingsAssumption DEF Continuous!DelayAssumption, Continuous!Times
<1>2. t \in Continuous!Instants /\ b \in Continuous!Instants /\ b \in Int
  BY <1>1, InstantsAre
<1>3. d.x \in [0 .. n - 1 -> Int] /\ d.y \in [0 .. n - 1 -> Values]
  BY DEF Rings
<1>4. 0 \in 0 .. n - 1 /\ 1 \in 0 .. n - 1
  BY <1>1
<1>5. /\ r.x = [d.x EXCEPT ![0] = b, ![1] = t] /\ r.y = [d.y EXCEPT ![0] = v, ![1] = v]
      /\ r.first = 0 /\ r.add = 1 /\ r.old = 1
  BY DEF Continuous!Initialised
<1>6. r \in Rings(n, Values)
  BY <1>1, <1>2, <1>3, <1>4 DEF Continuous!Initialised, Rings
<1>7. /\ r.x[0] = b /\ r.y[0] = v /\ r.x[1] = t /\ r.y[1] = v
      /\ \A p \in 0 .. n - 1 : p # 0 /\ p # 1 => r.x[p] = d.x[p]
  <2> HIDE DEF r, b
  <2>1. 0 # 1
    OBVIOUS
  <2>2. r.x[0] = b /\ r.x[1] = t
    BY <1>3, <1>4, <1>5, <2>1
  <2>3. r.y[0] = v /\ r.y[1] = v
    BY <1>3, <1>4, <1>5, <2>1
  <2>4. \A p \in 0 .. n - 1 : p # 0 /\ p # 1 => r.x[p] = d.x[p]
    BY <1>3, <1>5
  <2> QED
    BY <2>2, <2>3, <2>4
<1> HIDE DEF r
<1>8. Held(n, r) = 1 /\ Pos(n, r, 0) = 0 /\ Pos(n, r, 1) = 1
  BY <1>1, <1>5 DEF Held, Dist, Pos, Fwd
<1>9. When(r, 0) = b /\ When(r, 1) = t /\ What(r, 0) = <<b, v>> /\ Newest(r) = 1
  BY <1>7, <1>8 DEF When, What, At, Of, Newest
<1>10. Spread(n, r)
  <2> SUFFICES ASSUME NEW i \in 0 .. 1, NEW j \in 0 .. 1, i <= j
               PROVE  At(n, r, j) - At(n, r, i) >= j - i
    BY <1>8 DEF Spread
  <2>1. At(n, r, 0) = b /\ At(n, r, 1) = t
    BY <1>9 DEF When
  <2>2. t - b >= 1 /\ t - t = 0 /\ b - b = 0
    BY <1>1, <1>2
  <2>3. (i = 0 /\ j = 0) \/ (i = 0 /\ j = 1) \/ (i = 1 /\ j = 1)
    OBVIOUS
  <2> QED
    BY <2>1, <2>2, <2>3
<1>11. WellFormed(r)
  <2>1. \A p \in Entries : r.x[p] \in Continuous!Instants
    BY <1>2, <1>7 DEF Entries
  <2>2. \A i \in 1 .. 1 : \E s \in Starts : s <= When(r, i)
    BY <1>1, <1>9
  <2> QED
    BY <1>6, <1>9, <1>10, <2>1, <2>2 DEF WellFormed
<1>12. \A i \in 0 .. 1 : When(r, i) < t => What(r, i) \in {<<b, v>>}
  <2> TAKE i \in 0 .. 1
  <2>1. i = 0 \/ i = 1
    OBVIOUS
  <2> QED
    BY <1>1, <1>9, <2>1
<1>13. \A s \in {<<b, v>>} : When(r, 0) <= s[1]
  BY <1>2, <1>9
<1> QED
  BY <1>2, <1>5, <1>8, <1>9, <1>11, <1>12, <1>13 DEF r

----------------------------------------------------------------------------
(* Where the search begins.                                                *)

(* The entries from g on are what the latest decimation left behind: in    *)
(* order, ...                                                              *)
LeftBehind(d, g) ==
    /\ g \in Newest(d) + 1 .. Buffersize - 1 /\ Buffersize - g < Gap
    /\ \A i, j \in g .. Buffersize - 1 : i < j => When(d, i) < When(d, j)
    /\ \A i \in g .. Buffersize - 1 : \E s \in Starts : s <= When(d, i)

(* ... none of those held is between two neighbours of them, ...           *)
Apart(d, g) ==
    \A i \in g + 1 .. Buffersize - 1, j \in 0 .. Newest(d) :
       ~(When(d, i - 1) < When(d, j) /\ When(d, j) < When(d, i))

(* ... and those dropped since, before them in the ring, are later.        *)
Dropouts(d, g) == Newest(d) + 1 .. g - 1
LaterDropped(d, g) == \A i \in Dropouts(d, g) : When(d, i) >= When(d, Buffersize - 1)

(* They are of the signal h. *)
Remains(d, h, g) ==
    /\ LeftBehind(d, g) /\ Apart(d, g) /\ LaterDropped(d, g)
    /\ \A i \in g .. Buffersize - 1 : What(d, i) \in h

(* They are from before r. *)
FromBefore(d, r, g) == \A i \in g .. Buffersize - 1 : When(d, i) < r

(* The last search ended at an entry that is still held, or at one left    *)
(* behind, from before the step that is under way began.                   *)
Searches(d, h, R) ==
    \E o \in Entries :
       /\ d.old = Pos(Buffersize, d, o)
       /\ \/ o <= Newest(d)
          \/ \E g \in Entries : g <= o /\ Remains(d, h, g) /\ \A r \in R : FromBefore(d, r, g)

(* A step ends before a ring without what a decimation left behind is full *)
(* with its evaluations.                                                   *)
StepsFit == Span + Gap <= Buffersize

(* A decimation leaves one entry behind, or every run begins at the same   *)
(* time: what is left behind is before or after all that is read.          *)
RunsBeginAlike == Gap <= 2 \/ \A s, t \in Starts : s = t

(* A write leaves the last search where it ended: at an entry that is held *)
(* or was dropped just now, or at one that this or an earlier decimation   *)
(* left behind.                                                            *)
LEMMA WrittenLeaves ==
    ASSUME NEW d, WellFormed(d), NEW h, NEW t \in Continuous!Times, NEW v \in Values,
           NEW origin \in Starts, origin <= t, NEW delay \in Delays,
           NEW o \in Entries, d.old = Pos(Buffersize, d, o)
    PROVE  LET w == Continuous!Write(d, t, v)
           IN  \E p \in Entries :
                 /\ w.old = Pos(Buffersize, w, p)
                 /\ \/ p <= Newest(w)
                    \/ o <= Newest(d) /\ \A i \in Newest(w) + 1 .. p : When(w, i) >= t
                    \/ /\ o > Newest(d)
                       /\ \A f \in Entries : f <= o /\ LeftBehind(d, f) /\ LaterDropped(d, f) =>
                            \E g \in Entries :
                              /\ g <= p /\ f <= g /\ LeftBehind(w, g)
                              /\ \A i \in Dropouts(w, g) :
                                   When(w, i) >= t \/ When(w, i) >= When(w, Buffersize - 1)
                              /\ \A i \in g .. Buffersize - 1 : What(w, i) = What(d, i)
                              /\ Apart(d, f) /\ FromBefore(d, t, f) => Apart(w, g)
                    \/ /\ o <= Newest(d)
                       /\ \E g \in Entries :
                            /\ g <= p /\ LeftBehind(w, g) /\ Apart(w, g) /\ Dropouts(w, g) = {}
                            /\ FromBefore(w, t - Buffersize + Gap, g) /\ FromBefore(w, t, g)
                            /\ \A i \in g .. Buffersize - 1 :
                                 \E j \in 0 .. Newest(d) : What(w, i) = What(d, j)
<1> DEFINE n == Buffersize
           w == Continuous!Write(d, t, v)
           m == Newest(d)
           k == Newest(w)
<1>1. d \in Rings(n, Values) /\ Spread(n, d)
  BY DEF WellFormed
<1>2. t \in Int
  BY InstantsAre
<1>3. When(d, 0) < t
  BY <1>2, FirstIsBefore
<1>4. /\ w \in Rings(n, Values) /\ w.old = d.old
      /\ k \in 1 .. n - 1 /\ What(w, k) = <<t, v>>
      /\ \A i \in 0 .. k - 1 : When(w, i) < t /\ \E j \in 0 .. m : What(w, i) = What(d, j)
      /\ \/ /\ w.first = d.first /\ k <= m + 1
            /\ \A i \in Entries : i # k => What(w, i) = What(d, i)
            /\ \A i \in k .. m : When(d, i) >= t
         \/ /\ m = n - 1 /\ k = n - Gap
            /\ w.first = Pos(n, d, Gap)
            /\ \A i \in Entries : When(d, i) < t
            /\ \A i \in 1 .. Gap - 1 : What(w, n - Gap + i) = What(d, i)
  BY <1>1, <1>2, <1>3, WrittenIs DEF When, What, Newest, Entries
<1> HIDE DEF w, m, k
<1>5. \A i : What(w, i)[1] = When(w, i) /\ What(d, i)[1] = When(d, i)
  BY <1>1, <1>4, WhenIs
<1>6. /\ n \in Nat /\ n >= 5 /\ Gap \in 1 .. n - 3
      /\ m \in 0 .. n - 1 /\ k \in 0 .. n - 1 /\ o \in 0 .. n - 1 /\ Entries = 0 .. n - 1
      /\ d.first \in 0 .. n - 1
  <2>1. n \in Nat /\ n >= 5 /\ Gap \in 1 .. n - 3
    BY RingConstants
  <2>2. m \in Entries /\ k \in Entries
    BY <1>1, <1>4, WhenIs DEF m, k
  <2>3. d.first \in 0 .. n - 1
    BY <1>1 DEF Rings
  <2>4. Entries = 0 .. n - 1
    BY DEF Entries
  <2> QED
    BY <2>1, <2>2, <2>3, <2>4
<1>7. \A i \in 0 .. n - 1 : When(d, i) \in Int /\ When(w, i) \in Int
  BY <1>1, <1>4, WhenIs DEF Entries
<1>8. When(w, k) = t
  BY <1>4, <1>5
<1>9. d.old = Pos(n, d, o)
  OBVIOUS
<1> DEFINE Later(p, f) ==
             \E g \in Entries :
               /\ g <= p /\ f <= g /\ LeftBehind(w, g)
               /\ \A i \in Dropouts(w, g) : When(w, i) >= t \/ When(w, i) >= When(w, n - 1)
               /\ \A i \in g .. n - 1 : What(w, i) = What(d, i)
               /\ Apart(d, f) /\ FromBefore(d, t, f) => Apart(w, g)
           Now(p) ==
             \E g \in Entries :
               /\ g <= p /\ LeftBehind(w, g) /\ Apart(w, g) /\ Dropouts(w, g) = {}
               /\ FromBefore(w, t - n + Gap, g) /\ FromBefore(w, t, g)
               /\ \A i \in g .. n - 1 : \E j \in 0 .. m : What(w, i) = What(d, j)
<1>10. SUFFICES \E p \in Entries :
         /\ w.old = Pos(n, w, p)
         /\ \/ p <= k
            \/ o <= m /\ \A i \in k + 1 .. p : When(w, i) >= t
            \/ o > m /\ \A f \in Entries :
                           f <= o /\ LeftBehind(d, f) /\ LaterDropped(d, f) => Later(p, f)
            \/ o <= m /\ Now(p)
  BY DEF w, m, k
<1> HIDE DEF Later, Now
<1>20. CASE /\ w.first = d.first /\ k <= m + 1
            /\ \A i \in Entries : i # k => What(w, i) = What(d, i)
            /\ \A i \in k .. m : When(d, i) >= t
  <2>1. w.old = Pos(n, w, o)
    BY <1>4, <1>9, <1>20 DEF Pos
  <2>2. \A i \in 0 .. n - 1 : i # k => What(w, i) = What(d, i) /\ When(w, i) = When(d, i)
    BY <1>5, <1>6, <1>20
  <2>3. CASE o <= k
    BY <2>1, <2>3
  <2>4. CASE o > k /\ o <= m
    <3>1. \A i \in k + 1 .. o : When(w, i) >= t
      <4> TAKE i \in k + 1 .. o
      <4>1. i \in k .. m /\ i # k /\ i \in 0 .. n - 1
        BY <1>6, <2>4
      <4> QED
        BY <4>1, <2>2, <1>20
    <3> QED
      BY <2>1, <2>4, <3>1
  <2>5. ASSUME o > k, o > m, NEW f \in Entries, f <= o, LeftBehind(d, f), LaterDropped(d, f)
        PROVE  Later(o, f)
    <3> DEFINE g == IF f <= k THEN k + 1 ELSE f
    <3>1. f \in m + 1 .. n - 1 /\ f <= o /\ n - f < Gap
      BY <2>5 DEF LeftBehind, m
    <3>2. g \in 0 .. n - 1 /\ g <= o /\ g \in k + 1 .. n - 1 /\ n - g < Gap /\ f <= g
          /\ \A i \in k + 1 .. g - 1 : i <= m \/ i \in m + 1 .. f - 1
      BY <1>6, <1>20, <2>5, <3>1
    <3> HIDE DEF g
    <3>3. \A i \in g .. n - 1 : i \in f .. n - 1 /\ i \in 0 .. n - 1 /\ i # k /\ n - 1 \in f .. n - 1
                                /\ n - 1 \in g .. n - 1
      BY <1>6, <3>1, <3>2
    <3>4. \A i \in g .. n - 1 : What(w, i) = What(d, i) /\ When(w, i) = When(d, i)
      BY <2>2, <3>3
    <3>5. LeftBehind(w, g)
      <4>1. \A i, j \in g .. n - 1 : i < j => When(w, i) < When(w, j)
        <5> TAKE i, j \in g .. n - 1
        <5>1. i < j => When(d, i) < When(d, j)
          BY <2>5, <3>3 DEF LeftBehind
        <5> QED
          BY <5>1, <3>4
      <4>2. \A i \in g .. n - 1 : \E s \in Starts : s <= When(w, i)
        <5> TAKE i \in g .. n - 1
        <5>1. \E s \in Starts : s <= When(d, i)
          BY <2>5, <3>3 DEF LeftBehind
        <5> QED
          BY <5>1, <3>4
      <4> QED
        BY <3>2, <4>1, <4>2 DEF LeftBehind, k
    <3>6. \A i \in Dropouts(w, g) : When(w, i) >= t \/ When(w, i) >= When(w, n - 1)
      <4> TAKE i \in Dropouts(w, g)
      <4>1. i \in k + 1 .. g - 1
        BY DEF Dropouts, k
      <4>2. i \in 0 .. n - 1 /\ i # k /\ n - 1 \in g .. n - 1
        BY <1>6, <3>2, <4>1
      <4>3. When(w, i) = When(d, i) /\ When(w, n - 1) = When(d, n - 1)
        BY <2>2, <3>4, <4>2
      <4>4. CASE i <= m
        <5>1. i \in k .. m
          BY <1>6, <4>1, <4>4
        <5> QED
          BY <5>1, <4>3, <1>20
      <4>5. CASE i \in m + 1 .. f - 1
        BY <2>5, <4>3, <4>5 DEF LaterDropped, Dropouts, m
      <4> QED
        BY <3>2, <4>1, <4>4, <4>5
    <3>7. ASSUME Apart(d, f), FromBefore(d, t, f)
          PROVE  Apart(w, g)
      <4> SUFFICES ASSUME NEW i \in g + 1 .. n - 1, NEW j \in 0 .. k
                   PROVE  ~(When(w, i - 1) < When(w, j) /\ When(w, j) < When(w, i))
        BY DEF Apart, k
      <4>1. i - 1 \in g .. n - 1 /\ i \in g .. n - 1 /\ i \in f + 1 .. n - 1 /\ i \in f .. n - 1
            /\ i \in 0 .. n - 1
        BY <1>6, <3>1, <3>2
      <4>2. When(w, i) = When(d, i) /\ When(w, i - 1) = When(d, i - 1)
        BY <3>4, <4>1
      <4>3. CASE j = k
        <5>1. When(d, i) < t /\ When(d, i) \in Int
          BY <3>7, <4>1, <1>7 DEF FromBefore
        <5> QED
          BY <5>1, <4>2, <4>3, <1>2, <1>8
      <4>4. CASE j # k
        <5>1. j \in 0 .. n - 1 /\ j \in 0 .. m
          BY <1>6, <1>20, <4>4
        <5>2. When(w, j) = When(d, j)
          BY <5>1, <4>4, <2>2
        <5> QED
          BY <3>7, <4>1, <4>2, <5>1, <5>2 DEF Apart, m
      <4> QED
        BY <4>3, <4>4
    <3>8. g \in Entries
      BY <1>6, <3>2
    <3> QED
      BY <3>2, <3>4, <3>5, <3>6, <3>7, <3>8 DEF Later
  <2> QED
    BY <1>6, <2>1, <2>3, <2>4, <2>5
<1>30. CASE /\ m = n - 1 /\ k = n - Gap
            /\ w.first = Pos(n, d, Gap)
            /\ \A i \in Entries : When(d, i) < t
            /\ \A i \in 1 .. Gap - 1 : What(w, n - Gap + i) = What(d, i)
  <2> DEFINE p == IF o >= Gap THEN o - Gap ELSE o + n - Gap
  <2>1. p \in 0 .. n - 1 /\ w.old = Pos(n, w, p) /\ o <= m
    <3>1. Fwd(n, d.first, o) = Fwd(n, Fwd(n, d.first, Gap), p) /\ p \in 0 .. n - 1
      <4> HIDE DEF n
      <4> QED
        BY <1>6 DEF Fwd
    <3> QED
      BY <1>4, <1>6, <1>9, <1>30, <3>1 DEF Pos
  <2>2. p <= k \/ (p \in k + 1 .. n - 1 /\ k + 1 \in 0 .. n - 1)
    BY <1>6, <1>30
  <2> HIDE DEF p
  <2>3. \A i \in k + 1 .. n - 1 : /\ i - k \in 1 .. Gap - 1 /\ i - k \in 0 .. m /\ i - k \in 0 .. n - 1
                                  /\ i \in 0 .. n - 1
                                  /\ What(w, i) = What(d, i - k) /\ When(w, i) = When(d, i - k)
    <3> TAKE i \in k + 1 .. n - 1
    <3>1. i - k \in 1 .. Gap - 1 /\ n - Gap + (i - k) = i /\ i - k \in 0 .. m /\ i - k \in 0 .. n - 1
          /\ i \in 0 .. n - 1
      BY <1>6, <1>30
    <3>2. What(w, i) = What(d, i - k)
      BY <3>1, <1>30
    <3> QED
      BY <3>1, <3>2, <1>5
  <2>4. \A i, j \in 0 .. m : i <= j => When(d, j) - When(d, i) >= j - i
    BY <1>1 DEF Spread, When, Newest, m
  <2>5. CASE p \in k + 1 .. n - 1 /\ k + 1 \in 0 .. n - 1
    <3> DEFINE g == k + 1
    <3>1. LeftBehind(w, g)
      <4>1. \A i, j \in g .. n - 1 : i < j => When(w, i) < When(w, j)
        <5> TAKE i, j \in g .. n - 1
        <5> SUFFICES ASSUME i < j PROVE When(w, i) < When(w, j)
          OBVIOUS
        <5>1. i - k \in 0 .. m /\ j - k \in 0 .. m /\ i - k <= j - k /\ (j - k) - (i - k) >= 1
          BY <1>6, <2>3
        <5>2. When(d, j - k) - When(d, i - k) >= (j - k) - (i - k)
          BY <2>4, <5>1
        <5>3. When(d, j - k) \in Int /\ When(d, i - k) \in Int
          BY <1>7, <2>3
        <5>4. When(w, i) = When(d, i - k) /\ When(w, j) = When(d, j - k)
          BY <2>3
        <5> HIDE DEF g
        <5> QED
          BY <5>1, <5>2, <5>3, <5>4, <1>6
      <4>2. \A i \in g .. n - 1 : \E s \in Starts : s <= When(w, i)
        <5> TAKE i \in g .. n - 1
        <5>1. i - k \in 1 .. m
          BY <1>6, <2>3
        <5>2. \E s \in Starts : s <= When(d, i - k)
          BY <5>1 DEF WellFormed, m
        <5> QED
          BY <5>2, <2>3
      <4>3. g \in k + 1 .. n - 1 /\ n - g < Gap
        BY <1>6, <1>30, <2>5
      <4> QED
        BY <4>1, <4>2, <4>3 DEF LeftBehind, k
    <3>2. Apart(w, g)
      <4> SUFFICES ASSUME NEW i \in g + 1 .. n - 1, NEW j \in 0 .. k
                   PROVE  ~(When(w, i - 1) < When(w, j) /\ When(w, j) < When(w, i))
        BY DEF Apart, k
      <4>1. i \in k + 1 .. n - 1 /\ i - 1 \in k + 1 .. n - 1 /\ (i - 1) - k = (i - k) - 1
        BY <1>6
      <4>2. /\ When(w, i) = When(d, i - k) /\ When(w, i - 1) = When(d, (i - k) - 1)
            /\ i - k \in 0 .. m /\ (i - k) - 1 \in 0 .. m
        BY <2>3, <4>1
      <4>3. When(d, i - k) \in Int /\ When(d, (i - k) - 1) \in Int /\ When(d, i - k) < t
        BY <1>6, <1>7, <1>30, <2>3, <4>1, <4>2
      <4>4. CASE j = k
        BY <4>2, <4>3, <4>4, <1>2, <1>8
      <4>5. CASE j # k
        <5>1. j \in 0 .. k - 1
          BY <1>6, <4>5
        <5>2. PICK l \in 0 .. m : What(w, j) = What(d, l)
          BY <1>4, <5>1
        <5>3. When(w, j) = When(d, l) /\ When(d, l) \in Int
          <6>1. l \in 0 .. n - 1
            BY <1>6
          <6>2. When(w, j) = When(d, l)
            BY <1>5, <5>2
          <6> QED
            BY <6>1, <6>2, <1>7
        <5>4. l <= (i - k) - 1 \/ i - k <= l
          BY <1>6
        <5>5. l <= (i - k) - 1 => When(d, (i - k) - 1) - When(d, l) >= ((i - k) - 1) - l
          BY <2>4, <4>2
        <5>6. i - k <= l => When(d, l) - When(d, i - k) >= l - (i - k)
          BY <2>4, <4>2
        <5>7. ~(When(d, (i - k) - 1) < When(d, l) /\ When(d, l) < When(d, i - k))
          <6> DEFINE a == i - k
          <6>1. a \in Int /\ l \in Int
            BY <1>6
          <6> HIDE DEF a
          <6>2. \A A, B, C \in Int :
                  /\ l <= a - 1 \/ a <= l
                  /\ l <= a - 1 => A - B >= (a - 1) - l
                  /\ a <= l => B - C >= l - a
                  => ~(A < B /\ B < C)
            BY <6>1
          <6> QED
            BY <6>2, <5>3, <5>4, <5>5, <5>6, <4>3 DEF a
        <5> QED
          BY <4>2, <5>3, <5>7
      <4> QED
        BY <4>4, <4>5
    <3>3. Dropouts(w, g) = {}
      BY <1>6 DEF Dropouts, k
    <3>4. FromBefore(w, t - n + Gap, g) /\ FromBefore(w, t, g)
      <4> SUFFICES ASSUME NEW i \in g .. n - 1
                   PROVE  When(w, i) < t - n + Gap /\ When(w, i) < t
        BY DEF FromBefore
      <4>1. i - k \in 0 .. m /\ m \in 0 .. m /\ i - k <= m /\ m \in Entries
        BY <1>6, <2>3
      <4>2. When(d, m) - When(d, i - k) >= m - (i - k)
        BY <2>4, <4>1
      <4>3. When(d, m) < t /\ When(d, m) \in Int /\ When(d, i - k) \in Int
        BY <1>6, <1>7, <1>30, <4>1, <2>3
      <4>4. m - (i - k) >= n - Gap
        BY <1>6, <1>30, <2>3
      <4>5. When(w, i) = When(d, i - k)
        BY <2>3
      <4> QED
        BY <4>1, <4>2, <4>3, <4>4, <4>5, <1>2, <1>6
    <3>5. \A i \in g .. n - 1 : \E j \in 0 .. m : What(w, i) = What(d, j)
      BY <2>3
    <3>6. g \in Entries /\ g <= p
      BY <1>6, <2>5
    <3> QED
      BY <1>6, <2>1, <3>1, <3>2, <3>3, <3>4, <3>5, <3>6 DEF Now
  <2> QED
    BY <1>6, <2>1, <2>2, <2>5
<1> QED
  BY <1>4, <1>20, <1>30

(* Where the search ended says nothing of what the ring holds. *)
LEMMA OldAside ==
    ASSUME NEW d \in Rings(Buffersize, Values), NEW p \in Entries
    PROVE  LET c == [d EXCEPT !.old = p]
           IN  /\ c \in Rings(Buffersize, Values) /\ c.old = p
               /\ \A i : Pos(Buffersize, c, i) = Pos(Buffersize, d, i)
               /\ Newest(c) = Newest(d)
               /\ \A i : When(c, i) = When(d, i) /\ What(c, i) = What(d, i)
               /\ WellFormed(d) => WellFormed(c)
               /\ \A h : Remembers(d, h) => Remembers(c, h)
               /\ \A h, g : Remains(d, h, g) => Remains(c, h, g)
               /\ \A r, g : FromBefore(d, r, g) => FromBefore(c, r, g)
<1> DEFINE c == [d EXCEPT !.old = p]
<1>1. c \in Rings(Buffersize, Values)
  BY DEF Rings, Entries
<1>2. /\ c.old = p /\ c.x = d.x /\ c.y = d.y /\ c.first = d.first /\ c.add = d.add
  BY DEF Rings
<1> HIDE DEF c
<1>3. \A i : Pos(Buffersize, c, i) = Pos(Buffersize, d, i)
  BY <1>2 DEF Pos
<1>4. Newest(c) = Newest(d) /\ Held(Buffersize, c) = Held(Buffersize, d)
  BY <1>2 DEF Newest, Held
<1>5. \A i : /\ When(c, i) = When(d, i) /\ What(c, i) = What(d, i)
             /\ At(Buffersize, c, i) = At(Buffersize, d, i)
  BY <1>2, <1>3 DEF When, What, At, Of
<1>6. Spread(Buffersize, d) => Spread(Buffersize, c)
  BY <1>4, <1>5 DEF Spread
<1>7. WellFormed(d) => WellFormed(c)
  BY <1>1, <1>2, <1>4, <1>5, <1>6 DEF WellFormed
<1>8. \A h : Remembers(d, h) => Remembers(c, h)
  BY <1>4, <1>5 DEF Remembers
<1>9. \A g : /\ LeftBehind(d, g) => LeftBehind(c, g)
             /\ Apart(d, g) => Apart(c, g)
             /\ LaterDropped(d, g) => LaterDropped(c, g)
  BY <1>4, <1>5 DEF LeftBehind, Apart, LaterDropped, Dropouts
<1>10. \A h, g : Remains(d, h, g) => Remains(c, h, g)
  BY <1>5, <1>9 DEF Remains
<1>11. \A r, g : FromBefore(d, r, g) => FromBefore(c, r, g)
  BY <1>5 DEF FromBefore
<1> QED
  BY <1>1, <1>2, <1>3, <1>4, <1>5, <1>7, <1>8, <1>10, <1>11 DEF c

(* The search ends between two neighbours of the signal as far as it is    *)
(* held, or between two that a decimation left behind and nothing held is  *)
(* between; and the next one may begin there.                              *)
LEMMA SearchEnds ==
    ASSUME NEW d, NEW h, WellFormed(d), NEW t \in Continuous!Times, NEW v \in Values,
           NEW origin \in Starts, origin <= t, NEW delay \in Delays,
           h \in SUBSET (Continuous!Instants \X Values),
           \A i \in 0 .. Newest(d) : When(d, i) < t => What(d, i) \in h,
           \A s \in h : When(d, 0) <= s[1],
           NEW R, Searches(d, h, R), StepsFit, NEW next,
           \/ RunsBeginAlike /\ t \in Starts /\ next = t
           \/ \E r \in R : r \in Int /\ r <= t /\ t <= r + Span /\ next \in {t, r}
    PROVE  LET w == Continuous!Write(d, t, v)
               g == Continuous!Heard(h, t, v)
               x == t - delay
               p == Continuous!Look(w, x)
               b == Continuous!Before(p)
           IN  /\ p \in Entries /\ b \in Entries
               /\ w.x[b] < x /\ x <= w.x[p]
               /\ {<<w.x[b], w.y[b]>>, <<w.x[p], w.y[p]>>} \subseteq g
               /\ \A i \in 0 .. Newest(w) : ~(w.x[b] < When(w, i) /\ When(w, i) < w.x[p])
               /\ Searches([w EXCEPT !.old = p], g, {next})
<1> DEFINE n == Buffersize
           w == Continuous!Write(d, t, v)
           g == Continuous!Heard(h, t, v)
           x == t - delay
           k == Newest(w)
<1>1. /\ WellFormed(w) /\ Remembers(w, g)
      /\ When(w, k) = t /\ k \in 1 .. n - 1
  <2>1. GoesOn(d, h, t, v, origin, delay)
    BY DEF GoesOn
  <2> QED
    BY <2>1, WriteGoesOn
<1>2. w \in Rings(n, Values) /\ Spread(n, w)
  BY <1>1 DEF WellFormed
<1>3. t \in Int /\ delay \in Nat /\ x \in Int /\ n \in Nat /\ n >= 5 /\ Span \in Nat /\ Gap \in Nat
  <2>1. t \in Int
    BY InstantsAre
  <2>2. delay \in Nat /\ Span \in Nat
    BY RingsAssumption DEF Continuous!DelayAssumption
  <2>3. n \in Nat /\ n >= 5 /\ Gap \in Nat
    BY RingConstants
  <2> QED
    BY <2>1, <2>2, <2>3
<1>4. When(w, 0) < x /\ x <= When(w, k)
  BY <1>1, <1>3, FirstIsBefore
<1>5. PICK o \in Entries :
         /\ d.old = Pos(n, d, o)
         /\ o <= Newest(d) \/ \E f \in Entries : /\ f <= o /\ Remains(d, h, f)
                                                 /\ \A r \in R : FromBefore(d, r, f)
  BY DEF Searches
<1>6. PICK q0 \in Entries :
         /\ w.old = Pos(n, w, q0)
         /\ \/ q0 <= k
            \/ o <= Newest(d) /\ \A i \in k + 1 .. q0 : When(w, i) >= t
            \/ /\ o > Newest(d)
               /\ \A f \in Entries : f <= o /\ LeftBehind(d, f) /\ LaterDropped(d, f) =>
                    \E l \in Entries :
                      /\ l <= q0 /\ f <= l /\ LeftBehind(w, l)
                      /\ \A i \in Dropouts(w, l) : When(w, i) >= t \/ When(w, i) >= When(w, n - 1)
                      /\ \A i \in l .. n - 1 : What(w, i) = What(d, i)
                      /\ Apart(d, f) /\ FromBefore(d, t, f) => Apart(w, l)
            \/ /\ o <= Newest(d)
               /\ \E l \in Entries :
                    /\ l <= q0 /\ LeftBehind(w, l) /\ Apart(w, l) /\ Dropouts(w, l) = {}
                    /\ FromBefore(w, t - n + Gap, l) /\ FromBefore(w, t, l)
                    /\ \A i \in l .. n - 1 : \E j \in 0 .. Newest(d) : What(w, i) = What(d, j)
  BY <1>5, WrittenLeaves
<1>7. PICK q \in 1 .. n - 1 :
         /\ Continuous!Look(w, x) = Pos(n, w, q)
         /\ Continuous!Before(Pos(n, w, q)) = Pos(n, w, q - 1)
         /\ When(w, q - 1) < x /\ x <= When(w, q)
         /\ \/ q <= k
            \/ /\ q - 1 > k /\ q0 > k
               /\ \/ When(w, q0) < x /\ q0 <= q - 1
                  \/ q <= q0 /\ \A i \in q .. q0 : x <= When(w, i)
  <2>1. q0 \in 0 .. n - 1 /\ At(n, w, 0) < x /\ x <= At(n, w, Held(n, w))
    BY <1>4, <1>6 DEF Entries, When, Newest
  <2> HIDE DEF w, x
  <2> QED
    BY <1>2, <1>3, <1>6, <2>1, LookIs DEF When, Newest, k
<1> HIDE DEF w, g, k
<1>8. /\ k \in 0 .. n - 1 /\ q0 \in 0 .. n - 1 /\ Entries = 0 .. n - 1
      /\ \A i \in 0 .. n - 1 : Pos(n, w, i) \in Entries /\ When(w, i) \in Int
      /\ \A i : What(w, i)[1] = When(w, i) /\ What(d, i)[1] = When(d, i)
      /\ Newest(d) \in 0 .. n - 1
      /\ \A i \in 0 .. n - 1 : When(d, i) \in Int
  <2>1. d \in Rings(n, Values)
    BY DEF WellFormed
  <2>2. Entries = 0 .. n - 1
    BY DEF Entries
  <2> QED
    BY <1>2, <1>6, <2>1, <2>2, WhenIs DEF k
<1>12. /\ n \in Nat /\ n >= 5 /\ k \in 0 .. n - 1 /\ q0 \in 0 .. n - 1 /\ q \in 1 .. n - 1
       /\ Entries = 0 .. n - 1 /\ Newest(d) \in Int /\ o \in Int
  BY <1>3, <1>8
<1> DEFINE Bracket ==
             /\ {What(w, q - 1), What(w, q)} \subseteq g
             /\ \A i \in 0 .. k : ~(When(w, q - 1) < When(w, i) /\ When(w, i) < When(w, q))
           Begins ==
             \/ q <= k
             \/ \E l \in Entries : l <= q - 1 /\ Remains(w, g, l) /\ FromBefore(w, next, l)
<1>9. SUFFICES Bracket /\ Begins
  <2> DEFINE c == [w EXCEPT !.old = Pos(n, w, q)]
  <2>1. q \in 0 .. n - 1 /\ q - 1 \in 0 .. n - 1
    BY <1>3
  <2>2. Pos(n, w, q) \in Entries /\ Pos(n, w, q - 1) \in Entries
    BY <1>8, <2>1
  <2>3. /\ c.old = Pos(n, w, q)
        /\ \A i : Pos(n, c, i) = Pos(n, w, i)
        /\ Newest(c) = k
        /\ \A f : Remains(w, g, f) => Remains(c, g, f)
        /\ \A f : FromBefore(w, next, f) => FromBefore(c, next, f)
    BY <1>2, <2>2, OldAside DEF k
  <2> HIDE DEF c
  <2>4. Begins => Searches(c, g, {next})
    <3>1. SUFFICES ASSUME Begins
                   PROVE  q <= k \/ \E l \in Entries : /\ l <= q /\ Remains(c, g, l)
                                                       /\ FromBefore(c, next, l)
      <4>1. q \in Entries
        BY <1>8, <2>1
      <4> QED
        BY <4>1, <2>3 DEF Searches
    <3>2. CASE q <= k
      BY <3>2
    <3>3. CASE \E l \in Entries : l <= q - 1 /\ Remains(w, g, l) /\ FromBefore(w, next, l)
      <4>1. PICK l \in Entries : l <= q - 1 /\ Remains(w, g, l) /\ FromBefore(w, next, l)
        BY <3>3
      <4>2. l <= q
        BY <4>1, <1>8, <2>1
      <4> QED
        BY <4>1, <4>2, <2>3
    <3> QED
      BY <3>1, <3>2, <3>3
  <2>5. w.x[Pos(n, w, q)] = When(w, q) /\ w.x[Pos(n, w, q - 1)] = When(w, q - 1)
    BY DEF When, At
  <2>6. /\ <<w.x[Pos(n, w, q)], w.y[Pos(n, w, q)]>> = What(w, q)
        /\ <<w.x[Pos(n, w, q - 1)], w.y[Pos(n, w, q - 1)]>> = What(w, q - 1)
    BY DEF What, Of
  <2> QED
    BY <1>7, <2>2, <2>4, <2>5, <2>6 DEF w, g, k, c
<1>10. CASE q <= k
  <2>1. q \in 0 .. k /\ q - 1 \in 0 .. k
    BY <1>8, <1>10
  <2>2. {What(w, q - 1), What(w, q)} \subseteq g
    BY <1>1, <2>1 DEF Remembers, k
  <2>3. ASSUME NEW i \in 0 .. k
        PROVE  ~(When(w, q - 1) < When(w, i) /\ When(w, i) < When(w, q))
    <3>1. When(w, q) \in Int /\ When(w, q - 1) \in Int /\ When(w, i) \in Int
      <4>1. q \in 0 .. n - 1 /\ q - 1 \in 0 .. n - 1 /\ i \in 0 .. n - 1
        BY <1>12, <2>1
      <4> QED
        BY <1>8, <4>1
    <3>2. i <= q - 1 => When(w, q - 1) - When(w, i) >= (q - 1) - i
      BY <1>2, <2>1 DEF Spread, When, Newest, k
    <3>3. q <= i => When(w, i) - When(w, q) >= i - q
      BY <1>2, <2>1 DEF Spread, When, Newest, k
    <3>4. (i <= q - 1 /\ (q - 1) - i >= 0) \/ (q <= i /\ i - q >= 0)
      BY <1>12
    <3>5. i <= q - 1 => When(w, i) <= When(w, q - 1)
      BY <1>12, <3>1, <3>2, <3>4
    <3>6. q <= i => When(w, q) <= When(w, i)
      BY <1>12, <3>1, <3>3, <3>4
    <3> QED
      BY <3>1, <3>4, <3>5, <3>6
  <2> QED
    BY <1>10, <2>2, <2>3
<1>11. CASE q > k
  <2>1. /\ q - 1 > k /\ q0 > k
        /\ \/ When(w, q0) < x /\ q0 <= q - 1
           \/ q <= q0 /\ \A i \in q .. q0 : x <= When(w, i)
    BY <1>7, <1>8, <1>11
  <2>2. ~(When(w, q - 1) >= t) /\ ~(When(w, q - 1) >= x)
        /\ When(w, q - 1) \in Int /\ When(w, q0) \in Int /\ When(w, q) \in Int
        /\ When(w, n - 1) \in Int
    <3>1. q - 1 \in 0 .. n - 1 /\ q0 \in 0 .. n - 1 /\ q \in 0 .. n - 1 /\ n - 1 \in 0 .. n - 1
      BY <1>3, <1>8
    <3>2. When(w, q - 1) \in Int /\ When(w, q0) \in Int /\ When(w, q) \in Int /\ When(w, n - 1) \in Int
      BY <1>8, <3>1
    <3> QED
      BY <1>3, <1>7, <3>2
  <2>3. ASSUME o <= Newest(d), \A i \in k + 1 .. q0 : When(w, i) >= t
        PROVE  FALSE
    <3>1. CASE When(w, q0) < x /\ q0 <= q - 1
      <4>1. q0 \in k + 1 .. q0
        BY <1>8, <2>1
      <4>2. When(w, q0) >= t
        BY <2>3, <4>1
      <4> QED
        BY <1>3, <2>2, <3>1, <4>2
    <3>2. CASE q <= q0
      <4>1. q - 1 \in k + 1 .. q0
        BY <1>8, <2>1, <3>2
      <4> QED
        BY <2>2, <2>3, <4>1
    <3> QED
      BY <2>1, <3>1, <3>2
  (* The search goes no further back than what was left behind. *)
  <2>4. ASSUME NEW l \in Entries, l <= q0, LeftBehind(w, l),
               \A i \in Dropouts(w, l) : When(w, i) >= t \/ When(w, i) >= When(w, n - 1)
        PROVE  l <= q - 1
    <3>1. CASE q0 <= q - 1
      BY <1>8, <2>4, <3>1
    <3>2. CASE q <= q0 /\ \A i \in q .. q0 : x <= When(w, i)
      <4> SUFFICES ASSUME q - 1 < l
                   PROVE  FALSE
        BY <1>8, <2>4
      <4>1. q - 1 \in Dropouts(w, l)
        BY <1>8, <2>1 DEF Dropouts, k
      <4>2. When(w, q - 1) >= When(w, n - 1)
        BY <2>2, <2>4, <4>1
      <4>3. When(w, q0) <= When(w, n - 1)
        <5>1. CASE q0 = n - 1
          BY <2>2, <5>1
        <5>2. CASE q0 # n - 1
          <6>1. q0 \in l .. n - 1 /\ n - 1 \in l .. n - 1 /\ q0 < n - 1
            BY <1>12, <2>4, <5>2
          <6>2. When(w, q0) < When(w, n - 1)
            BY <2>4, <6>1 DEF LeftBehind
          <6> QED
            BY <2>2, <6>2
        <5> QED
          BY <5>1, <5>2
      <4>4. x <= When(w, q0)
        BY <1>8, <3>2
      <4> QED
        BY <1>3, <2>2, <4>2, <4>3, <4>4
    <3> QED
      BY <2>1, <3>1, <3>2
  <2>5. ASSUME NEW l \in Entries, l <= q - 1, LeftBehind(w, l), Apart(w, l), LaterDropped(w, l),
               \A i \in l .. n - 1 : What(w, i) \in h, FromBefore(w, t, l), FromBefore(w, next, l)
        PROVE  Bracket /\ Begins
    <3>1. \A i \in l .. n - 1 : What(w, i) \in g
      <4> TAKE i \in l .. n - 1
      <4>1. What(w, i) \in h /\ What(w, i)[1] < t
        BY <2>5, <1>8 DEF FromBefore
      <4> QED
        BY <4>1 DEF g, Continuous!Heard
    <3>2. q - 1 \in l .. n - 1 /\ q \in l .. n - 1 /\ q \in l + 1 .. n - 1
      BY <1>12, <2>5
    <3>3. \A i \in 0 .. k : ~(When(w, q - 1) < When(w, i) /\ When(w, i) < When(w, q))
      BY <2>5, <3>2 DEF Apart, k
    <3>4. Remains(w, g, l)
      BY <2>5, <3>1 DEF Remains
    <3> QED
      BY <2>5, <3>1, <3>2, <3>3, <3>4
  <2>6. ASSUME o > Newest(d),
               \A f \in Entries : f <= o /\ LeftBehind(d, f) /\ LaterDropped(d, f) =>
                    \E l \in Entries :
                      /\ l <= q0 /\ f <= l /\ LeftBehind(w, l)
                      /\ \A i \in Dropouts(w, l) : When(w, i) >= t \/ When(w, i) >= When(w, n - 1)
                      /\ \A i \in l .. n - 1 : What(w, i) = What(d, i)
                      /\ Apart(d, f) /\ FromBefore(d, t, f) => Apart(w, l)
        PROVE  Bracket /\ Begins
    <3>1. ~(o <= Newest(d))
      BY <1>8, <2>6
    <3>2. PICK f \in Entries : f <= o /\ Remains(d, h, f) /\ \A r \in R : FromBefore(d, r, f)
      BY <1>5, <3>1
    <3>3. PICK l \in Entries :
             /\ l <= q0 /\ f <= l /\ LeftBehind(w, l)
             /\ \A i \in Dropouts(w, l) : When(w, i) >= t \/ When(w, i) >= When(w, n - 1)
             /\ \A i \in l .. n - 1 : What(w, i) = What(d, i)
             /\ Apart(d, f) /\ FromBefore(d, t, f) => Apart(w, l)
      BY <2>6, <3>2 DEF Remains
    <3>4. l <= q - 1
      BY <2>4, <3>3
    <3>5. l \in 0 .. n - 1 /\ f \in 0 .. n - 1 /\ \A i \in l .. n - 1 : i \in f .. n - 1 /\ i \in 0 .. n - 1
      BY <1>8, <3>3
    <3>6. \A i \in l .. n - 1 : When(w, i) = When(d, i)
      BY <3>3, <1>8
    <3>7. CASE RunsBeginAlike /\ t \in Starts /\ next = t
      <4>1. CASE Gap <= 2
        <5>1. n - l < 2
          BY <1>3, <3>3, <3>5, <4>1 DEF LeftBehind
        <5> QED
          BY <1>3, <3>4, <3>5, <5>1
      <4>2. CASE \A s, t1 \in Starts : s = t1
        <5>1. q - 1 \in l .. n - 1
          BY <1>12, <3>4, <3>5
        <5>2. PICK s \in Starts : s <= When(w, q - 1)
          BY <3>3, <5>1 DEF LeftBehind
        <5>3. s = t
          BY <3>7, <4>2
        <5> QED
          BY <1>3, <2>2, <5>2, <5>3
      <4> QED
        BY <3>7, <4>1, <4>2 DEF RunsBeginAlike
    <3>8. CASE \E r \in R : r \in Int /\ r <= t /\ t <= r + Span /\ next \in {t, r}
      <4>1. PICK r \in R : r \in Int /\ r <= t /\ next \in {t, r}
        BY <3>8
      <4>2. FromBefore(d, r, f)
        BY <3>2, <4>1
      <4>3. \A i \in f .. n - 1 : When(d, i) < r /\ When(d, i) < t
        <5> TAKE i \in f .. n - 1
        <5>1. i \in 0 .. n - 1
          BY <3>5
        <5>2. When(d, i) < r /\ When(d, i) \in Int
          BY <4>2, <5>1, <1>8 DEF FromBefore
        <5> QED
          BY <1>3, <4>1, <5>2
      <4>4. FromBefore(d, t, f)
        BY <4>3 DEF FromBefore
      <4>5. FromBefore(w, t, l) /\ FromBefore(w, next, l)
        BY <3>5, <3>6, <4>1, <4>3 DEF FromBefore
      <4>6. Apart(w, l)
        BY <3>2, <3>3, <4>4 DEF Remains
      <4>7. \A i \in l .. n - 1 : What(w, i) \in h
        BY <3>2, <3>3, <3>5 DEF Remains
      <4>8. LaterDropped(w, l)
        <5> SUFFICES ASSUME NEW i \in Dropouts(w, l)
                     PROVE  When(w, i) >= When(w, n - 1)
          BY DEF LaterDropped
        <5>1. CASE When(w, i) >= t
          <6>1. i \in 0 .. n - 1 /\ n - 1 \in l .. n - 1
            BY <1>12, <3>5 DEF Dropouts, k
          <6>2. When(w, n - 1) < t
            BY <4>5, <6>1 DEF FromBefore
          <6>3. When(w, i) \in Int
            BY <6>1, <1>8
          <6> QED
            BY <5>1, <6>2, <6>3, <1>3, <2>2
        <5> QED
          BY <3>3, <5>1
      <4> QED
        BY <2>5, <3>3, <3>4, <4>5, <4>6, <4>7, <4>8
    <3> QED
      BY <3>7, <3>8
  <2>7. ASSUME o <= Newest(d),
               NEW l \in Entries,
               l <= q0, LeftBehind(w, l), Apart(w, l), Dropouts(w, l) = {},
               FromBefore(w, t - n + Gap, l), FromBefore(w, t, l),
               \A i \in l .. n - 1 : \E j \in 0 .. Newest(d) : What(w, i) = What(d, j)
        PROVE  Bracket /\ Begins
    <3>1. l <= q - 1
      BY <2>4, <2>7
    <3>2. \A i \in l .. n - 1 : What(w, i) \in h
      <4> TAKE i \in l .. n - 1
      <4>1. PICK j \in 0 .. Newest(d) : What(w, i) = What(d, j)
        BY <2>7
      <4>2. When(w, i) < t
        BY <2>7 DEF FromBefore
      <4>3. When(d, j) < t
        BY <4>1, <4>2, <1>8
      <4> QED
        BY <4>1, <4>3
    <3>3. FromBefore(w, next, l)
      <4>1. CASE next = t
        BY <2>7, <4>1
      <4>2. CASE next # t
        <5>1. next \in Int /\ t <= next + Span
          BY <4>2
        <5>2. \A i \in l .. n - 1 : When(w, i) < next
          <6> TAKE i \in l .. n - 1
          <6>1. i \in 0 .. n - 1
            BY <1>8
          <6>2. When(w, i) < t - n + Gap /\ When(w, i) \in Int
            BY <2>7, <6>1, <1>8 DEF FromBefore
          <6> QED
            BY <1>3, <5>1, <6>2 DEF StepsFit
        <5> QED
          BY <5>2 DEF FromBefore
      <4> QED
        BY <4>1, <4>2
    <3>4. LaterDropped(w, l)
      BY <2>7 DEF LaterDropped
    <3> QED
      BY <2>5, <2>7, <3>1, <3>2, <3>3, <3>4
  <2> HIDE DEF Bracket, Begins
  <2>8. ~(q0 <= k)
    BY <1>12, <2>1
  <2> QED
    BY <1>6, <2>3, <2>6, <2>7, <2>8
<1> QED
  BY <1>8, <1>10, <1>11

----------------------------------------------------------------------------
(* The run of a continuous delay.                                          *)

RingInv ==
    /\ Continuous!TypeOK
    /\ allocated => WellFormed(del) /\ Remembers(del, hist)
    /\ start # Continuous!NotBegun =>
          allocated /\ read.ok /\ \E s \in Starts : s <= reached

(* The type of a ring, in the words of the model and of these proofs.      *)
LEMMA RingTypes ==
    ASSUME NEW d
    PROVE  d \in [x : [Continuous!Positions -> Continuous!Instants],
                  y : [Continuous!Positions -> Values],
                  first : Continuous!Positions, add : Continuous!Positions, old : Continuous!Positions]
           <=> d \in Rings(Buffersize, Values) /\ \A p \in Entries : d.x[p] \in Continuous!Instants
<1>1. Continuous!Positions = 0 .. Buffersize - 1 /\ Entries = 0 .. Buffersize - 1
  BY RingSteps DEF Entries
<1>2. Continuous!Instants \subseteq Int
  BY InstantsAre
<1> DEFINE E == 0 .. Buffersize - 1
<1>3. \A f : f \in [E -> Continuous!Instants]
             <=> f \in [E -> Int] /\ \A p \in E : f[p] \in Continuous!Instants
  <2> HIDE DEF E
  <2> QED
    BY <1>2
<1> QED
  BY <1>1, <1>3 DEF Rings

(* What an evaluation does, whether it is the first one or not. *)
LEMMA Evaluation ==
    ASSUME RingInv, NEW t \in Continuous!Times, NEW v \in Values, NEW e \in Delays,
           Continuous!Evaluate(t, v, e)
    PROVE  \E d, h :
             /\ WellFormed(d) /\ h \in SUBSET (Continuous!Instants \X Values)
             /\ \A i \in 0 .. Newest(d) : When(d, i) < t => What(d, i) \in h
             /\ \A s \in h : When(d, 0) <= s[1]
             /\ \E s \in Starts : s <= t
             /\ \/ allocated /\ d = del /\ h = hist
                \/ start = Continuous!NotBegun /\ Newest(d) = 1 /\ d.old = Pos(Buffersize, d, 1)
             /\ allocated'
             /\ hist' = Continuous!Heard(h, t, v)
             /\ LET w == Continuous!Write(d, t, v)
                    x == t - e
                    p == Continuous!Look(w, x)
                IN  /\ p \in Entries
                    /\ del' = [w EXCEPT !.old = p]
                    /\ read' = [ok |-> TRUE, x |-> x,
                                low |-> Continuous!Entry(w, Continuous!Before(p)),
                                up |-> Continuous!Entry(w, p)]
<1> DEFINE b == t - e - Reach
           d == IF allocated THEN del ELSE Continuous!Initialised(del, b, t, v)
           h == IF allocated THEN hist ELSE {<<b, v>>}
           w == Continuous!Write(d, t, v)
           x == t - e
           p == Continuous!Look(w, x)
<1>1. /\ IF start = Continuous!NotBegun THEN t \in Starts ELSE reached <= t
      /\ allocated' = TRUE
      /\ hist' = Continuous!Heard(h, t, v)
      /\ IF x < w.x[w.first]
         THEN del' = w
         ELSE /\ del' = [w EXCEPT !.old = p]
              /\ read' = [ok |-> TRUE, x |-> x,
                          low |-> Continuous!Entry(w, Continuous!Before(p)),
                          up |-> Continuous!Entry(w, p)]
  BY DEF Continuous!Evaluate, Continuous!Delayed
<1>2. t \in Int /\ e \in Nat /\ Starts \subseteq Int /\ x \in Int
  <2>1. t \in Int
    BY InstantsAre
  <2>2. e \in Nat /\ Starts \subseteq Int
    BY RingsAssumption DEF Continuous!DelayAssumption
  <2> QED
    BY <2>1, <2>2
<1>3. PICK s \in Starts : s <= t
  <2>1. CASE start = Continuous!NotBegun
    BY <1>1, <1>2, <2>1
  <2>2. CASE start # Continuous!NotBegun
    <3>1. PICK s \in Starts : s <= reached
      BY <2>2 DEF RingInv
    <3>2. reached \in Int /\ s \in Int /\ reached <= t
      BY <1>1, <1>2, <2>2, InstantsAre DEF RingInv, Continuous!TypeOK, Continuous!Times
    <3> QED
      BY <1>2, <3>1, <3>2
  <2> QED
    BY <2>1, <2>2
<1>4. /\ WellFormed(d) /\ h \in SUBSET (Continuous!Instants \X Values)
      /\ \A i \in 0 .. Newest(d) : When(d, i) < t => What(d, i) \in h
      /\ \A r \in h : When(d, 0) <= r[1]
      /\ \/ allocated /\ d = del /\ h = hist
         \/ start = Continuous!NotBegun /\ Newest(d) = 1 /\ d.old = Pos(Buffersize, d, 1)
  <2>1. CASE allocated
    <3>1. d = del /\ h = hist
      BY <2>1
    <3>2. WellFormed(del) /\ Remembers(del, hist) /\ hist \in SUBSET (Continuous!Instants \X Values)
      BY <2>1 DEF RingInv, Continuous!TypeOK
    <3> QED
      BY <2>1, <3>1, <3>2 DEF Remembers
  <2>2. CASE ~allocated
    <3>1. d = Continuous!Initialised(del, b, t, v) /\ h = {<<b, v>>}
      BY <2>2
    <3>2. start = Continuous!NotBegun /\ t \in Starts
      BY <1>1, <2>2 DEF RingInv
    <3>3. del \in Rings(Buffersize, Values) /\ \A q \in Entries : del.x[q] \in Continuous!Instants
      BY RingTypes DEF RingInv, Continuous!TypeOK
    <3> QED
      BY <3>1, <3>2, <3>3, ReadyIs
  <2> QED
    BY <2>1, <2>2
<1> HIDE DEF d, h
<1>5. WellFormed(w) /\ When(w, Newest(w)) = t
  BY <1>3, <1>4, RingGoesOn
<1>6. When(w, 0) < x /\ x <= When(w, Newest(w))
  BY <1>2, <1>3, <1>5, FirstIsBefore
<1> HIDE DEF w
<1>7. w \in Rings(Buffersize, Values) /\ Spread(Buffersize, w)
  BY <1>5 DEF WellFormed
<1>8. p \in Entries
  <2>0. w.old \in Entries
    BY <1>7 DEF Rings, Entries
  <2>1. PICK o \in Entries : w.old = Pos(Buffersize, w, o)
    BY <1>7, <2>0, WhenIs
  <2>2. \E q \in 1 .. Buffersize - 1 : Continuous!Look(w, x) = Pos(Buffersize, w, q)
    <3>1. At(Buffersize, w, 0) < x /\ x <= At(Buffersize, w, Held(Buffersize, w)) /\ o \in 0 .. Buffersize - 1
      BY <1>6, <2>1 DEF When, Newest, Entries
    <3> HIDE DEF x
    <3> QED
      BY <1>2, <1>7, <2>1, <3>1, LookIs
  <2>3. PICK q \in 1 .. Buffersize - 1 : Continuous!Look(w, x) = Pos(Buffersize, w, q)
    BY <2>2
  <2>4. q \in Entries
    BY RingConstants DEF Entries
  <2> QED
    BY <1>7, <2>3, <2>4, WhenIs
<1>9. ~(x < w.x[w.first])
  <2>1. w.x[w.first] = When(w, 0)
    BY <1>7, WhenIs DEF When, At
  <2>2. 0 \in Entries
    BY RingConstants DEF Entries
  <2>3. When(w, 0) \in Int
    BY <1>7, <2>2, WhenIs
  <2> QED
    BY <1>2, <1>6, <2>1, <2>3
<1> QED
  BY <1>1, <1>3, <1>4, <1>8, <1>9 DEF w

(* A new ring is well formed.                                              *)
LEMMA RingStarts ==
    Continuous!Init => RingInv
<1> SUFFICES ASSUME Continuous!Init PROVE RingInv
  OBVIOUS
<1>1. 0 \in Continuous!Times /\ 0 \in Continuous!Instants
  BY RingsAssumption DEF Continuous!DelayAssumption, Continuous!Times, Continuous!Instants
<1>2. 0 \in Continuous!Positions
  BY RingConstants DEF Continuous!Positions
<1>3. PICK v \in Values : del = Continuous!NewBuffer(v)
  BY DEF Continuous!Init
<1>4. del \in [x : [Continuous!Positions -> Continuous!Instants],
               y : [Continuous!Positions -> Values],
               first : Continuous!Positions, add : Continuous!Positions, old : Continuous!Positions]
  BY <1>1, <1>2, <1>3 DEF Continuous!NewBuffer
<1> QED
  BY <1>1, <1>4 DEF Continuous!Init, RingInv, Continuous!TypeOK

(* It stays so.                                                            *)
LEMMA RingStays ==
    RingInv /\ Continuous!Next => RingInv'
<1> SUFFICES ASSUME RingInv, Continuous!Next PROVE RingInv'
  OBVIOUS
<1>1. ASSUME NEW t \in Continuous!Times, NEW v \in Values, NEW e \in Delays,
             Continuous!Evaluate(t, v, e)
      PROVE  RingInv'
  <2>1. PICK d, h :
             /\ WellFormed(d) /\ h \in SUBSET (Continuous!Instants \X Values)
             /\ \A i \in 0 .. Newest(d) : When(d, i) < t => What(d, i) \in h
             /\ \A s \in h : When(d, 0) <= s[1]
             /\ \E s \in Starts : s <= t
             /\ allocated'
             /\ hist' = Continuous!Heard(h, t, v)
             /\ LET w == Continuous!Write(d, t, v)
                    x == t - e
                    p == Continuous!Look(w, x)
                IN  /\ p \in Entries
                    /\ del' = [w EXCEPT !.old = p]
                    /\ read' = [ok |-> TRUE, x |-> x,
                                low |-> Continuous!Entry(w, Continuous!Before(p)),
                                up |-> Continuous!Entry(w, p)]
    BY <1>1, Evaluation
  <2> DEFINE w == Continuous!Write(d, t, v)
             x == t - e
             p == Continuous!Look(w, x)
             g == Continuous!Heard(h, t, v)
  <2>2. PICK s \in Starts : s <= t
    BY <2>1
  <2>3. WellFormed(w) /\ Remembers(w, g) /\ g \in SUBSET (Continuous!Instants \X Values)
    BY <2>1, <2>2, RingGoesOn
  <2>4. /\ p \in Entries /\ del' = [w EXCEPT !.old = p] /\ hist' = g /\ allocated'
        /\ read' = [ok |-> TRUE, x |-> x,
                    low |-> Continuous!Entry(w, Continuous!Before(p)),
                    up |-> Continuous!Entry(w, p)]
    BY <2>1
  <2> HIDE DEF w, p, g
  <2>5. w \in Rings(Buffersize, Values) /\ \A q \in Entries : w.x[q] \in Continuous!Instants
    BY <2>3 DEF WellFormed
  <2>6. WellFormed(del') /\ Remembers(del', hist')
    BY <2>3, <2>4, <2>5, OldAside
  <2>7. del' \in [x : [Continuous!Positions -> Continuous!Instants],
               y : [Continuous!Positions -> Values],
               first : Continuous!Positions, add : Continuous!Positions, old : Continuous!Positions]
    <3>1. del' \in Rings(Buffersize, Values) /\ \A q \in Entries : del'.x[q] \in Continuous!Instants
      BY <2>6 DEF WellFormed
    <3> QED
      BY <3>1, RingTypes
  <2>8. \A q \in Entries : Continuous!Entry(w, q) \in Continuous!Instants \X Values
    <3> TAKE q \in Entries
    <3>1. w.y[q] \in Values
      BY <2>5 DEF Rings, Entries
    <3> QED
      BY <2>5, <3>1 DEF Continuous!Entry
  <2>9. Continuous!Before(p) \in Entries
    <3>1. p \in 0 .. Buffersize - 1 /\ Buffersize \in Nat
      BY <2>4, RingConstants DEF Entries
    <3> QED
      BY <3>1 DEF Continuous!Before, Continuous!Back, Entries
  <2>10. x \in Continuous!Instants
    BY InstantsAre
  <2>11. read' \in [ok : {TRUE}, x : Continuous!Instants,
                    low : Continuous!Instants \X Values, up : Continuous!Instants \X Values]
    BY <2>4, <2>8, <2>9, <2>10
  <2>12. /\ start' \in Continuous!Times \cup {Continuous!NotBegun} /\ reached' \in Continuous!Times
         /\ \E r \in Starts : r <= reached'
    <3>1. /\ start' = IF start = Continuous!NotBegun THEN t ELSE start
          /\ reached' \in IF start = Continuous!NotBegun THEN {t} ELSE {reached, t}
      BY <1>1 DEF Continuous!Evaluate
    <3>2. start \in Continuous!Times \cup {Continuous!NotBegun} /\ reached \in Continuous!Times
      BY DEF RingInv, Continuous!TypeOK
    <3>3. start # Continuous!NotBegun => \E r \in Starts : r <= reached
      BY DEF RingInv
    <3> QED
      BY <2>2, <3>1, <3>2, <3>3
  <2>13. Continuous!TypeOK'
    <3>1. allocated' \in BOOLEAN
      BY <1>1 DEF Continuous!Evaluate
    <3> QED
      BY <2>3, <2>4, <2>7, <2>11, <2>12, <3>1 DEF Continuous!TypeOK
  <2>14. read'.ok
    BY <2>4
  <2> QED
    BY <2>4, <2>6, <2>12, <2>13, <2>14 DEF RingInv
<1>2. CASE Continuous!Reset
  <2>1. /\ start' = Continuous!NotBegun /\ reached' = 0 /\ read' = Continuous!NoRead
        /\ UNCHANGED <<del, allocated, hist>>
    BY <1>2 DEF Continuous!Reset
  <2>2. 0 \in Continuous!Times
    BY RingsAssumption DEF Continuous!DelayAssumption, Continuous!Times
  <2> QED
    BY <2>1, <2>2 DEF RingInv, Continuous!TypeOK
<1> QED
  BY <1>1, <1>2 DEF Continuous!Next

(* In order, and nothing but the signal. *)
LEMMA RingSays ==
    RingInv => Continuous!TypeOK /\ Continuous!Ordered /\ Continuous!HoldsHistory
               /\ Continuous!NeverTooOld
<1> SUFFICES ASSUME RingInv
             PROVE  Continuous!TypeOK /\ Continuous!Ordered /\ Continuous!HoldsHistory
                    /\ Continuous!NeverTooOld
  OBVIOUS
<1> DEFINE n == Buffersize
           m == Newest(del)
<1>1. Continuous!TypeOK /\ Continuous!NeverTooOld
  BY DEF RingInv, Continuous!NeverTooOld
<1>2. del \in Rings(n, Values)
  BY RingTypes DEF RingInv, Continuous!TypeOK
<1>3. Continuous!Live(del) = {Pos(n, del, i) : i \in 0 .. m}
  BY RingSteps DEF Continuous!Live, Pos, Newest, Held
<1>4. /\ n \in Nat /\ n >= 5 /\ m \in 0 .. n - 1 /\ del.first \in 0 .. n - 1
      /\ \A i \in 0 .. n - 1 : When(del, i) \in Int
      /\ del.add = Pos(n, del, m) /\ del.first = Pos(n, del, 0)
  <2>1. n \in Nat /\ n >= 5
    BY RingConstants
  <2>2. del.first \in 0 .. n - 1
    BY <1>2 DEF Rings
  <2>3. m \in 0 .. n - 1 /\ \A i \in 0 .. n - 1 : When(del, i) \in Int
    BY <1>2, WhenIs DEF Entries
  <2> QED
    BY <2>1, <2>2, <2>3, <1>2, WhenIs
<1>5. ASSUME allocated
      PROVE  \A i \in 0 .. m : Pos(n, del, i) # del.add =>
                del.x[Pos(n, del, i)] < del.x[Continuous!After(Pos(n, del, i))]
  <2> SUFFICES ASSUME NEW i \in 0 .. m, Pos(n, del, i) # del.add
               PROVE  del.x[Pos(n, del, i)] < del.x[Continuous!After(Pos(n, del, i))]
    OBVIOUS
  <2>1. i # m
    BY <1>4
  <2> HIDE DEF m
  <2>2. i \in 0 .. m /\ i + 1 \in 0 .. m /\ i <= i + 1 /\ i \in 0 .. n - 1 /\ i + 1 \in 0 .. n - 1
    BY <1>4, <2>1
  <2>3. Continuous!After(Pos(n, del, i)) = Pos(n, del, i + 1)
    <3>1. Fwd(n, Fwd(n, del.first, i), 1) = Fwd(n, del.first, i + 1)
      <4> HIDE DEF n
      <4> QED
        BY <1>4, <2>2 DEF Fwd
    <3> QED
      BY <3>1, RingSteps DEF Continuous!After, Pos
  <2>4. When(del, i + 1) - When(del, i) >= (i + 1) - i
    BY <1>5, <2>2 DEF RingInv, WellFormed, Spread, When, Newest, m
  <2>5. When(del, i + 1) \in Int /\ When(del, i) \in Int
    BY <1>4, <2>2
  <2>6. When(del, i) < When(del, i + 1)
    BY <2>2, <2>4, <2>5
  <2> QED
    BY <2>3, <2>6 DEF When, At
<1>6. Continuous!Ordered
  BY <1>3, <1>5 DEF Continuous!Ordered
<1>7. ASSUME start # Continuous!NotBegun
      PROVE  /\ \A i \in Continuous!Live(del) : Continuous!Entry(del, i) \in hist
             /\ \A s \in hist : del.x[del.first] <= s[1] /\ s[1] <= del.x[del.add]
  <2>1. Remembers(del, hist)
    BY <1>7 DEF RingInv
  <2>2. \A i \in 0 .. m : Continuous!Entry(del, Pos(n, del, i)) \in hist
    BY <2>1 DEF Remembers, What, Of, Continuous!Entry
  <2>3. del.x[del.first] = When(del, 0) /\ del.x[del.add] = When(del, m)
    BY <1>4 DEF When, At
  <2> QED
    BY <1>3, <2>1, <2>2, <2>3 DEF Remembers
<1> QED
  BY <1>1, <1>6, <1>7 DEF Continuous!HoldsHistory

(* Where the next search begins, and where the last one ended. *)
SearchInv ==
    /\ allocated =>
          Searches(del, hist, IF start = Continuous!NotBegun THEN {} ELSE {reached})
    /\ Continuous!ReadBrackets

(* No search has been made at the start.                                   *)
LEMMA SearchStarts ==
    Continuous!Init => SearchInv
BY DEF Continuous!Init, SearchInv, Continuous!ReadBrackets, Continuous!NoRead

(* Every evaluation leaves its search where the next one may begin.        *)
LEMMA SearchStays ==
    ASSUME StepsFit, RunsBeginAlike
    PROVE  RingInv /\ SearchInv /\ Continuous!Next => SearchInv'
<1> SUFFICES ASSUME RingInv, SearchInv, Continuous!Next PROVE SearchInv'
  OBVIOUS
<1>1. ASSUME NEW t \in Continuous!Times, NEW v \in Values, NEW e \in Delays,
             Continuous!Evaluate(t, v, e)
      PROVE  SearchInv'
  <2>1. PICK d, h :
             /\ WellFormed(d) /\ h \in SUBSET (Continuous!Instants \X Values)
             /\ \A i \in 0 .. Newest(d) : When(d, i) < t => What(d, i) \in h
             /\ \A s \in h : When(d, 0) <= s[1]
             /\ \E s \in Starts : s <= t
             /\ \/ allocated /\ d = del /\ h = hist
                \/ start = Continuous!NotBegun /\ Newest(d) = 1 /\ d.old = Pos(Buffersize, d, 1)
             /\ allocated'
             /\ hist' = Continuous!Heard(h, t, v)
             /\ LET w == Continuous!Write(d, t, v)
                    x == t - e
                    p == Continuous!Look(w, x)
                IN  /\ p \in Entries
                    /\ del' = [w EXCEPT !.old = p]
                    /\ read' = [ok |-> TRUE, x |-> x,
                                low |-> Continuous!Entry(w, Continuous!Before(p)),
                                up |-> Continuous!Entry(w, p)]
    BY <1>1, Evaluation
  <2> DEFINE w == Continuous!Write(d, t, v)
             x == t - e
             p == Continuous!Look(w, x)
             b == Continuous!Before(p)
             g == Continuous!Heard(h, t, v)
             R == IF start = Continuous!NotBegun THEN {} ELSE {reached}
  <2>2. PICK s \in Starts : s <= t
    BY <2>1
  <2>3. /\ IF start = Continuous!NotBegun THEN t \in Starts
           ELSE reached <= t /\ t <= reached + Span
        /\ start' = IF start = Continuous!NotBegun THEN t ELSE start
        /\ reached' \in IF start = Continuous!NotBegun THEN {t} ELSE {reached, t}
    BY <1>1 DEF Continuous!Evaluate
  <2>4. Searches(d, h, R)
    <3>1. CASE allocated /\ d = del /\ h = hist
      BY <3>1 DEF SearchInv
    <3>2. CASE Newest(d) = 1 /\ d.old = Pos(Buffersize, d, 1)
      <4>1. 1 \in Entries /\ 1 <= 1
        BY RingConstants DEF Entries
      <4> QED
        BY <3>2, <4>1 DEF Searches
    <3> QED
      BY <2>1, <3>1, <3>2
  <2>5. \/ RunsBeginAlike /\ t \in Starts /\ reached' = t
        \/ \E r \in R : r \in Int /\ r <= t /\ t <= r + Span /\ reached' \in {t, r}
    <3>1. CASE start = Continuous!NotBegun
      BY <2>3, <3>1
    <3>2. CASE start # Continuous!NotBegun
      <4>1. reached \in Int
        BY InstantsAre DEF RingInv, Continuous!TypeOK, Continuous!Times
      <4> QED
        BY <2>3, <3>2, <4>1
    <3> QED
      BY <3>1, <3>2
  <2>6. /\ p \in Entries /\ b \in Entries
        /\ w.x[b] < x /\ x <= w.x[p]
        /\ {<<w.x[b], w.y[b]>>, <<w.x[p], w.y[p]>>} \subseteq g
        /\ \A i \in 0 .. Newest(w) : ~(w.x[b] < When(w, i) /\ When(w, i) < w.x[p])
        /\ Searches([w EXCEPT !.old = p], g, {reached'})
    <3> HIDE DEF R
    <3>1. \A next : \/ RunsBeginAlike /\ t \in Starts /\ next = t
                    \/ \E r \in R : r \in Int /\ r <= t /\ t <= r + Span /\ next \in {t, r}
                    => /\ p \in Entries /\ b \in Entries
                       /\ w.x[b] < x /\ x <= w.x[p]
                       /\ {<<w.x[b], w.y[b]>>, <<w.x[p], w.y[p]>>} \subseteq g
                       /\ \A i \in 0 .. Newest(w) : ~(w.x[b] < When(w, i) /\ When(w, i) < w.x[p])
                       /\ Searches([w EXCEPT !.old = p], g, {next})
      BY <2>1, <2>2, <2>4, SearchEnds
    <3> QED
      BY <2>5, <3>1
  <2>7. w \in Rings(Buffersize, Values)
    <3>1. WellFormed(w)
      BY <2>1, <2>2, RingGoesOn
    <3> QED
      BY <3>1 DEF WellFormed
  <2>8. /\ del' = [w EXCEPT !.old = p] /\ hist' = g /\ allocated'
        /\ read' = [ok |-> TRUE, x |-> x, low |-> Continuous!Entry(w, b), up |-> Continuous!Entry(w, p)]
    BY <2>1
  <2>9. start' # Continuous!NotBegun
    <3>1. t \in Nat
      BY RingsAssumption DEF Continuous!Times, Continuous!DelayAssumption
    <3> QED
      BY <2>3, <3>1 DEF Continuous!NotBegun
  <2> HIDE DEF w, p, b, g, x
  <2>10. Searches(del', hist', {reached'})
    BY <2>6, <2>8
  <2>11. Continuous!ReadBrackets'
    <3>1. read'.low = <<w.x[b], w.y[b]>> /\ read'.up = <<w.x[p], w.y[p]>> /\ read'.x = x
      BY <2>8 DEF Continuous!Entry
    <3>2. read'.low[1] = w.x[b] /\ read'.up[1] = w.x[p]
      BY <3>1
    <3>3. \A i \in Continuous!Live(del') : \E j \in 0 .. Newest(w) : del'.x[i] = When(w, j)
      <4>1. del'.x = w.x /\ del'.first = w.first /\ del'.add = w.add
        BY <2>7, <2>8 DEF Rings
      <4> QED
        BY <4>1, RingSteps DEF Continuous!Live, When, At, Pos, Newest, Held
    <3> QED
      BY <2>6, <2>8, <3>1, <3>2, <3>3 DEF Continuous!ReadBrackets
  <2> QED
    BY <2>9, <2>10, <2>11 DEF SearchInv
<1>2. CASE Continuous!Reset
  <2>1. /\ start' = Continuous!NotBegun /\ read' = Continuous!NoRead
        /\ UNCHANGED <<del, allocated, hist>>
    BY <1>2 DEF Continuous!Reset
  <2>2. Continuous!ReadBrackets'
    BY <2>1 DEF Continuous!ReadBrackets, Continuous!NoRead
  <2>3. \A R : Searches(del, hist, R) => Searches(del, hist, {})
    BY DEF Searches
  <2>4. allocated => Searches(del, hist, {})
    BY <2>3 DEF SearchInv
  <2> QED
    BY <2>1, <2>2, <2>4 DEF SearchInv
<1> QED
  BY <1>1, <1>2 DEF Continuous!Next

----------------------------------------------------------------------------
(* The ring of a discrete delay.                                           *)

(* The constants of a discrete delay.                                      *)
LEMMA ChangesConstants ==
    /\ Changes \in Sizes /\ Changes \in Nat /\ Changes >= 5
    /\ Delay \in Nat /\ Delay >= 1 /\ Past \in Nat /\ EventHorizon \in Nat
BY RingsAssumption DEF Discrete!NxAssumption, Discrete!DelayAssumption, Sizes

(* The ring operators of DelayRing, for a discrete delay.                  *)
LEMMA ChangesSteps ==
    /\ \A i, k : Discrete!Ahead(i, k) = Fwd(Changes, i, k)
    /\ \A i, k : Discrete!Back(i, k) = Bwd(Changes, i, k)
    /\ \A i, j : Discrete!Distance(i, j) = Dist(Changes, i, j)
    /\ Discrete!Positions = 0 .. Changes - 1
BY DEF Discrete!Ahead, Discrete!Back, Discrete!Distance, Discrete!Positions, Fwd, Bwd, Dist

(* Entries have positions, and instants.                                   *)
LEMMA PlacesAre ==
    ASSUME NEW n \in Sizes, NEW V, NEW d \in Rings(n, V)
    PROVE  /\ Held(n, d) \in 0 .. n - 1
           /\ \A i \in 0 .. n - 1 : Pos(n, d, i) \in 0 .. n - 1 /\ At(n, d, i) \in Int
           /\ \A i : Of(n, d, i)[1] = At(n, d, i)
           /\ Pos(n, d, Held(n, d)) = d.add /\ Pos(n, d, 0) = d.first
<1>1. /\ n \in Nat /\ n >= 5
      /\ d.first \in 0 .. n - 1 /\ d.add \in 0 .. n - 1
  BY DEF Rings, Sizes
<1>2. /\ Dist(n, d.first, d.add) \in 0 .. n - 1
      /\ Fwd(n, d.first, Dist(n, d.first, d.add)) = d.add
      /\ Fwd(n, d.first, 0) = d.first
      /\ \A i \in 0 .. n - 1 : Fwd(n, d.first, i) \in 0 .. n - 1
  BY <1>1 DEF Dist, Fwd
<1>3. d.x \in [0 .. n - 1 -> Int]
  BY DEF Rings
<1>4. \A i \in 0 .. n - 1 : d.x[Fwd(n, d.first, i)] \in Int
  BY <1>2, <1>3
<1>5. \A i : Of(n, d, i)[1] = At(n, d, i)
  BY DEF Of, At
<1> QED
  BY <1>2, <1>4, <1>5 DEF At, Pos, Held

(* delayDWrite2: what was written for t is dropped; the value is put after *)
(* the rest, unless it is that of the newest entry; a full ring forgets    *)
(* its oldest.                                                             *)
LEMMA ChangeIs ==
    ASSUME NEW V, NEW d \in Rings(Changes, V), Spread(Changes, d), NEW t \in Int,
           At(Changes, d, 0) < t, NEW v \in V
    PROVE  LET n == Changes
               w == Discrete!Write(d, t, v)
               m == Held(n, d)
               k == Held(n, w)
           IN  /\ w \in Rings(n, V) /\ Spread(n, w) /\ w.old = d.old
               /\ \A p \in 0 .. n - 1 : w.x[p] = t \/ w.x[p] = d.x[p]
               /\ \/ /\ w.first = d.first /\ k <= m
                     /\ \A i \in 0 .. k : Of(n, w, i) = Of(n, d, i) /\ At(n, d, i) < t
                     /\ \A i \in k + 1 .. m : At(n, d, i) >= t
                     /\ Of(n, w, k)[2] = v
                  \/ /\ w.first = d.first /\ k \in 1 .. m + 1
                     /\ \A i \in 0 .. k - 1 : Of(n, w, i) = Of(n, d, i) /\ At(n, d, i) < t
                     /\ \A i \in k .. m : At(n, d, i) >= t
                     /\ Of(n, w, k) = <<t, v>> /\ Of(n, d, k - 1)[2] # v
                  \/ /\ w.first = Pos(n, d, 1) /\ m = n - 1 /\ k = n - 1
                     /\ \A i \in 0 .. k - 1 : Of(n, w, i) = Of(n, d, i + 1)
                     /\ \A i \in 0 .. m : At(n, d, i) < t
                     /\ Of(n, w, k) = <<t, v>>
<1> DEFINE n == Changes
           w == Discrete!Write(d, t, v)
           m == Held(n, d)
           k == Held(n, w)
           f == Dropped(n, d, t)
           room == [f EXCEPT !.add = Fwd(n, @, 1)]
           full == [room EXCEPT !.first = Fwd(n, @, 1)]
<1>1. /\ n \in Sizes /\ n \in Nat /\ n >= 5
      /\ d.first \in 0 .. n - 1 /\ d.add \in 0 .. n - 1
  BY ChangesConstants DEF Rings
<1>2. m \in 0 .. n - 1 /\ Fwd(n, d.first, m) = d.add
  BY <1>1, PlacesAre DEF Pos
<1>3. PICK l \in 0 .. m :
          /\ f = [d EXCEPT !.add = Bwd(n, d.add, l)]
          /\ f \in Rings(n, V)
          /\ Held(n, f) = m - l
          /\ \A i \in 0 .. m - l : At(n, d, i) < t
          /\ \A i \in m - l + 1 .. m : At(n, d, i) >= t
  BY <1>1, DroppedIs
<1>4. Discrete!FutureDropped(d, t) = f
  BY ChangesSteps DEF Discrete!FutureDropped, Discrete!Min, Dropped, Least
<1> HIDE DEF f, m
<1>5. /\ f.first = d.first /\ f.x = d.x /\ f.y = d.y /\ f.old = d.old
      /\ f.add = Bwd(n, d.add, l)
  BY <1>3 DEF Rings
<1>6. f.add = Fwd(n, d.first, m - l) /\ f.add \in 0 .. n - 1 /\ Fwd(n, f.add, 1) \in 0 .. n - 1
      /\ Fwd(n, d.first, 1) \in 0 .. n - 1
  <2> HIDE DEF n
  <2> QED
    BY <1>1, <1>2, <1>5 DEF Fwd, Bwd
<1>7. /\ room \in Rings(n, V) /\ room.add = Fwd(n, f.add, 1) /\ room.first = d.first
      /\ room.x = d.x /\ room.y = d.y /\ room.old = d.old
  BY <1>3, <1>5, <1>6 DEF Rings
<1>8. \A i : Pos(n, f, i) = Pos(n, d, i) /\ Of(n, f, i) = Of(n, d, i) /\ At(n, f, i) = At(n, d, i)
  BY <1>5 DEF Of, At, Pos
<1>9. w = IF f.y[f.add] = v THEN f
          ELSE Discrete!Stored(IF room.add = d.first THEN full ELSE room, t, v)
  <2>1. w = IF f.y[f.add] = v THEN f
            ELSE Discrete!Stored(IF room.add = room.first THEN full ELSE room, t, v)
    <3> DEFINE r == [f EXCEPT !.add = Discrete!After(@)]
               q == [r EXCEPT !.first = Discrete!After(@)]
    <3>1. w = IF f.y[f.add] = v THEN f
              ELSE Discrete!Stored(IF r.add = r.first THEN q ELSE r, t, v)
      <4> DEFINE P == Discrete!FutureDropped(d, t)
                 O == [P EXCEPT !.add = Discrete!After(@)]
                 C == [O EXCEPT !.first = Discrete!After(@)]
      <4>1. w = IF P.y[P.add] = v THEN P
                ELSE Discrete!Stored(IF O.add = O.first THEN C ELSE O, t, v)
        BY DEF Discrete!Write
      <4>2. P = f
        BY <1>4
      <4> HIDE DEF P, w
      <4>3. O = r
        BY <4>2
      <4> HIDE DEF O, r
      <4>4. C = q
        BY <4>3
      <4> HIDE DEF C, q
      <4> QED
        BY <4>1, <4>2, <4>3, <4>4
    <3>2. r = room
      BY ChangesSteps DEF Discrete!After
    <3> HIDE DEF r
    <3>3. q = full
      BY <3>2, ChangesSteps DEF Discrete!After
    <3> HIDE DEF q, full, room, w
    <3> QED
      BY <3>1, <3>2, <3>3
  <2> HIDE DEF room, full, w
  <2> QED
    BY <2>1, <1>7
<1>10. Spread(n, f)
  <2> SUFFICES ASSUME NEW i \in 0 .. m - l, NEW j \in 0 .. m - l, i <= j
               PROVE  At(n, f, j) - At(n, f, i) >= j - i
    BY <1>3 DEF Spread
  <2>1. i \in 0 .. m /\ j \in 0 .. m
    BY <1>2
  <2>2. At(n, d, j) - At(n, d, i) >= j - i
    BY <2>1 DEF Spread, m
  <2> QED
    BY <2>2, <1>8
<1>11. m - l \in 0 .. n - 1 /\ m \in Int /\ l \in Int
  <2> HIDE DEF n
  <2> QED
    BY <1>1, <1>2
<1>20. CASE f.y[f.add] = v
  <2>1. w = f
    BY <1>9, <1>20
  <2>2. k = m - l /\ m - l <= m /\ \A i \in m - l + 1 .. m : i \in 0 .. m
    BY <2>1, <1>3, <1>2
  <2>3. Of(n, w, k)[2] = v
    BY <2>1, <2>2, <1>5, <1>6, <1>20 DEF Of, Pos
  <2> QED
    BY <2>1, <2>2, <2>3, <1>3, <1>5, <1>8, <1>10 DEF m
<1>30. CASE f.y[f.add] # v /\ room.add # d.first
  <2>1. w = Put(n, f, t, v)
    <3>1. w = Discrete!Stored(room, t, v)
      BY <1>9, <1>30
    <3>2. Discrete!Stored(room, t, v) = Put(n, f, t, v)
      BY <1>3, <1>5, <1>7 DEF Discrete!Stored, Put, Rings
    <3> QED
      BY <3>1, <3>2
  <2>2. Held(n, f) < n - 1
    <3>1. m - l # n - 1
      <4> HIDE DEF n, room
      <4> QED
        BY <1>1, <1>2, <1>6, <1>7, <1>30 DEF Fwd
    <3> QED
      BY <3>1, <1>1, <1>3, <1>11
  <2>3. \A i \in 0 .. Held(n, f) : At(n, f, i) < t
    BY <1>3, <1>8
  <2> HIDE DEF w
  <2>10. /\ w \in Rings(n, V) /\ Spread(n, w)
         /\ w.first = f.first /\ w.old = f.old
         /\ k = Held(n, f) + 1
         /\ \A i \in 0 .. Held(n, f) : Of(n, w, i) = Of(n, f, i)
         /\ Of(n, w, Held(n, f) + 1) = <<t, v>>
         /\ \A p \in 0 .. n - 1 \ {w.add} : w.x[p] = f.x[p]
         /\ w.add = Pos(n, f, Held(n, f) + 1)
    <3>1. f \in Rings(n, V)
      BY <1>3
    <3> HIDE DEF n, room, full
    <3> QED
      BY <1>1, <1>10, <2>1, <2>2, <2>3, <3>1, PutIs
  <2>4. /\ w \in Rings(n, V) /\ Spread(n, w)
        /\ w.first = f.first /\ w.old = f.old
        /\ k = m - l + 1
        /\ \A i \in 0 .. m - l : Of(n, w, i) = Of(n, f, i)
        /\ Of(n, w, m - l + 1) = <<t, v>>
        /\ \A p \in 0 .. n - 1 \ {w.add} : w.x[p] = f.x[p]
        /\ w.add = Pos(n, f, m - l + 1)
    BY <1>3, <2>10
  <2>5. k \in 1 .. m + 1 /\ k - 1 = m - l
    BY <1>2, <2>4
  <2>6. \A p \in 0 .. n - 1 : w.x[p] = t \/ w.x[p] = d.x[p]
    <3> TAKE p \in 0 .. n - 1
    <3>1. CASE p = w.add
      <4>1. w.x[w.add] = t
        <5>1. Pos(n, w, m - l + 1) = w.add
          BY <2>4 DEF Pos
        <5> QED
          BY <2>4, <5>1 DEF Of
      <4> QED
        BY <3>1, <4>1
    <3>2. CASE p # w.add
      BY <2>4, <1>5, <3>2
    <3> QED
      BY <3>1, <3>2
  <2>7. \A i \in 0 .. k - 1 : Of(n, w, i) = Of(n, d, i) /\ At(n, d, i) < t
    BY <1>3, <1>8, <2>4, <2>5
  <2>8. \A i \in k .. m : At(n, d, i) >= t
    BY <1>3, <2>4
  <2>9. Of(n, d, k - 1)[2] # v
    <3>1. Of(n, d, k - 1)[2] = f.y[f.add]
      BY <1>5, <1>6, <2>5 DEF Of, Pos
    <3> QED
      BY <3>1, <1>30
  <2> QED
    BY <1>5, <2>4, <2>5, <2>6, <2>7, <2>8, <2>9 DEF w, m
<1>40. CASE f.y[f.add] # v /\ room.add = d.first
  <2> DEFINE e == [f EXCEPT !.first = Fwd(n, @, 1)]
  <2>1. m - l = n - 1 /\ m = n - 1 /\ l = 0
    <3> DEFINE h == m - l
    <3>1. Fwd(n, Fwd(n, d.first, h), 1) = d.first /\ h \in 0 .. n - 1
      BY <1>6, <1>7, <1>11, <1>40
    <3> HIDE DEF n, h
    <3>2. h = n - 1
      BY <1>1, <3>1 DEF Fwd
    <3> QED
      BY <1>1, <1>2, <1>11, <3>2 DEF h
  <2>2. /\ e \in Rings(n, V) /\ e.first = Fwd(n, d.first, 1) /\ e.add = f.add
        /\ e.old = d.old /\ e.x = d.x /\ e.y = d.y
    BY <1>3, <1>5, <1>6 DEF Rings
  <2>3. w = Put(n, e, t, v)
    <3>1. w = Discrete!Stored(full, t, v)
      BY <1>9, <1>40
    <3>2. full = [e EXCEPT !.add = Fwd(n, e.add, 1)]
      BY <1>3, <1>5 DEF Rings
    <3>3. full.add = Fwd(n, e.add, 1) /\ full.x = e.x /\ full.y = e.y
      BY <1>7, <2>2
    <3> HIDE DEF full, e, room
    <3> DEFINE X == [e.x EXCEPT ![Fwd(n, e.add, 1)] = t]
               Y == [e.y EXCEPT ![Fwd(n, e.add, 1)] = v]
    <3>4. Discrete!Stored(full, t, v) = [full EXCEPT !.x = X, !.y = Y]
      BY <3>3 DEF Discrete!Stored
    <3>5. Put(n, e, t, v) = [e EXCEPT !.add = Fwd(n, e.add, 1), !.x = X, !.y = Y]
      BY DEF Put
    <3> HIDE DEF X, Y
    <3> QED
      BY <3>1, <3>2, <3>4, <3>5
  <2> HIDE DEF e, w
  <2>4. \A i \in 0 .. n - 2 : /\ i + 1 \in 0 .. m
                              /\ Of(n, e, i) = Of(n, d, i + 1) /\ At(n, e, i) = At(n, d, i + 1)
    <3> TAKE i \in 0 .. n - 2
    <3>1. Fwd(n, Fwd(n, d.first, 1), i) = Fwd(n, d.first, i + 1) /\ i + 1 \in 0 .. m
      <4> HIDE DEF n
      <4> QED
        BY <1>1, <2>1 DEF Fwd
    <3> QED
      BY <3>1, <2>2 DEF Of, At, Pos
  <2>5. Held(n, e) = n - 2
    <3>1. Dist(n, Fwd(n, d.first, 1), f.add) = n - 2
      <4> HIDE DEF n
      <4> QED
        BY <1>1, <1>6, <2>1 DEF Dist, Fwd
    <3> QED
      BY <3>1, <2>2 DEF Held
  <2>6. Spread(n, e)
    <3> SUFFICES ASSUME NEW i \in 0 .. n - 2, NEW j \in 0 .. n - 2, i <= j
                 PROVE  At(n, e, j) - At(n, e, i) >= j - i
      BY <2>5 DEF Spread
    <3>1. i + 1 \in 0 .. m /\ j + 1 \in 0 .. m /\ i + 1 <= j + 1 /\ (j + 1) - (i + 1) = j - i
      BY <2>4
    <3>2. At(n, d, j + 1) - At(n, d, i + 1) >= (j + 1) - (i + 1)
      BY <3>1 DEF Spread, m
    <3> QED
      BY <3>1, <3>2, <2>4
  <2>7. \A i \in 0 .. m : At(n, d, i) < t
    BY <1>3, <2>1
  <2>8. Held(n, e) < n - 1 /\ \A i \in 0 .. Held(n, e) : At(n, e, i) < t
    <3>1. \A i \in 0 .. n - 2 : At(n, e, i) < t
      BY <2>4, <2>7
    <3> QED
      BY <1>1, <2>5, <3>1
  <2>9. /\ w \in Rings(n, V) /\ Spread(n, w)
        /\ w.first = e.first /\ w.old = e.old
        /\ k = n - 2 + 1
        /\ \A i \in 0 .. n - 2 : Of(n, w, i) = Of(n, e, i)
        /\ Of(n, w, n - 2 + 1) = <<t, v>>
        /\ \A p \in 0 .. n - 1 \ {w.add} : w.x[p] = e.x[p]
        /\ w.add = Pos(n, e, n - 2 + 1)
    BY <1>1, <2>2, <2>3, <2>5, <2>6, <2>8, PutIs
  <2>10. k = n - 1 /\ n - 2 + 1 = n - 1 /\ k - 1 = n - 2
    BY <1>1, <2>9
  <2>11. \A p \in 0 .. n - 1 : w.x[p] = t \/ w.x[p] = d.x[p]
    <3> TAKE p \in 0 .. n - 1
    <3>1. CASE p = w.add
      <4>1. w.x[w.add] = t
        <5>1. Pos(n, w, n - 2 + 1) = w.add
          BY <2>9 DEF Pos
        <5> QED
          BY <2>9, <5>1 DEF Of
      <4> QED
        BY <3>1, <4>1
    <3>2. CASE p # w.add
      BY <2>2, <2>9, <3>2
    <3> QED
      BY <3>1, <3>2
  <2>12. \A i \in 0 .. k - 1 : Of(n, w, i) = Of(n, d, i + 1)
    BY <2>4, <2>9, <2>10
  <2>13. w.first = Pos(n, d, 1)
    BY <2>2, <2>9 DEF Pos
  <2> QED
    BY <2>1, <2>2, <2>7, <2>9, <2>10, <2>11, <2>12, <2>13 DEF w, m
<1> QED
  BY <1>20, <1>30, <1>40

(* delayDnext2: from wherever it starts, the search ends at the latest     *)
(* change at or before x.                                                  *)
LEMMA AnswerIs ==
    ASSUME NEW V, NEW d \in Rings(Changes, V), Spread(Changes, d), NEW x \in Int,
           At(Changes, d, 0) <= x,
           NEW o \in 0 .. Held(Changes, d), d.old = Pos(Changes, d, o)
    PROVE  LET n == Changes
           IN  \E q \in 0 .. Held(n, d) :
                 /\ Discrete!Next2(d, x) = Pos(n, d, q)
                 /\ At(n, d, q) <= x
                 /\ q = Held(n, d) \/ x < At(n, d, q + 1)
<1> DEFINE n == Changes
           m == Held(n, d)
           F == {k \in 0 .. n - 1 : x < d.x[Fwd(n, d.old, k + 1)]}
           B == {k \in 0 .. n - 1 \ {0} : x >= d.x[Bwd(n, d.old, k)]}
<1>1. n \in Sizes /\ n \in Nat /\ n >= 5 /\ d.first \in 0 .. n - 1
  BY ChangesConstants DEF Rings
<1>2. /\ m \in 0 .. n - 1 /\ Pos(n, d, m) = d.add /\ o \in 0 .. m
      /\ d.old = Pos(n, d, o)
  BY <1>1, PlacesAre
<1> HIDE DEF m
<1>3. \A i \in 0 .. n - 1 : Pos(n, d, i) \in 0 .. n - 1 /\ At(n, d, i) \in Int
  BY <1>1, PlacesAre
<1>4. \A i : d.x[Pos(n, d, i)] = At(n, d, i)
  BY DEF At
<1>5. SUFFICES \E q \in 0 .. m :
         /\ Discrete!Next2(d, x) = Pos(n, d, q)
         /\ At(n, d, q) <= x
         /\ q = m \/ x < At(n, d, q + 1)
  BY DEF m
<1>6. At(n, d, o) \in Int /\ At(n, d, m) \in Int /\ o \in 0 .. n - 1
  BY <1>1, <1>2, <1>3
<1>7. \A i \in 1 .. n - 1 : \A k \in 0 .. n - 1 :
         /\ o + k = i => Fwd(n, d.old, k) = Pos(n, d, i)
  <2> HIDE DEF n
  <2> QED
    BY <1>1, <1>2, <1>6 DEF Pos, Fwd
<1>8. \A k \in 0 .. o : Bwd(n, d.old, k) = Pos(n, d, o - k)
  <2> HIDE DEF n
  <2> QED
    BY <1>1, <1>2, <1>6 DEF Pos, Fwd, Bwd
<1>20. CASE x >= d.x[d.add]
  <2>1. Discrete!Next2(d, x) = Pos(n, d, m)
    BY <1>2, <1>20 DEF Discrete!Next2
  <2>2. At(n, d, m) <= x
    BY <1>2, <1>4, <1>6, <1>20
  <2>3. m \in 0 .. m
    BY <1>2
  <2> QED
    BY <2>1, <2>2, <2>3
<1>30. CASE ~(x >= d.x[d.add]) /\ x >= d.x[d.old]
  <2>1. Discrete!Next2(d, x) = Fwd(n, d.old, Least(F))
    BY <1>30, ChangesSteps DEF Discrete!Next2, Discrete!Min, Least
  <2>2. At(n, d, o) <= x /\ x < At(n, d, m)
    BY <1>2, <1>4, <1>6, <1>30
  <2>3. o < m
    BY <1>2, <1>6, <2>2
  <2>4. m - o - 1 \in F
    <3>1. m - o - 1 \in 0 .. n - 1 /\ m - o - 1 + 1 \in 0 .. n - 1 /\ o + (m - o - 1 + 1) = m
          /\ m \in 1 .. n - 1
      BY <1>1, <1>2, <2>3
    <3>2. Fwd(n, d.old, m - o - 1 + 1) = Pos(n, d, m)
      BY <1>7, <3>1
    <3> QED
      BY <1>4, <2>2, <3>1, <3>2
  <2>5. PICK k \in F : k = Least(F) /\ \A i \in F : k <= i
    <3>1. F \subseteq Nat /\ F # {}
      BY <2>4
    <3> HIDE DEF F
    <3> QED
      BY <3>1, LeastIs
  <2>6. k <= m - o - 1 /\ k \in 0 .. n - 1
    BY <2>4, <2>5
  <2> DEFINE q == o + k
  <2>7. /\ q \in 0 .. m /\ q < m /\ q + 1 \in 1 .. n - 1 /\ k + 1 \in 0 .. n - 1 /\ o + (k + 1) = q + 1
        /\ q \in 0 .. n - 1
    BY <1>1, <1>2, <2>6
  <2>8. x < At(n, d, q + 1)
    <3>1. Fwd(n, d.old, k + 1) = Pos(n, d, q + 1)
      BY <1>7, <2>7
    <3> QED
      BY <1>4, <2>5, <3>1
  <2>9. CASE k = 0
    <3>1. q = o
      BY <1>6, <2>9
    <3>2. Discrete!Next2(d, x) = Pos(n, d, q)
      <4>1. Fwd(n, d.old, 0) = d.old
        <5>1. d.old \in 0 .. n - 1
          BY <1>2, <1>3, <1>6
        <5> HIDE DEF n
        <5> QED
          BY <1>1, <5>1 DEF Fwd
      <4> QED
        BY <1>2, <2>1, <2>5, <2>9, <3>1, <4>1
    <3> QED
      BY <2>2, <2>7, <2>8, <3>1, <3>2
  <2>10. CASE k # 0
    <3>1. q \in 1 .. n - 1 /\ k - 1 \in 0 .. n - 1 /\ ~(k <= k - 1) /\ k - 1 + 1 = k
      BY <1>1, <1>6, <2>6, <2>7, <2>10
    <3>2. Fwd(n, d.old, k) = Pos(n, d, q)
      BY <1>7, <2>6, <3>1
    <3>3. ~(x < d.x[Fwd(n, d.old, k - 1 + 1)])
      BY <2>5, <3>1
    <3>4. At(n, d, q) <= x
      <4>1. ~(x < At(n, d, q)) /\ At(n, d, q) \in Int
        BY <1>3, <1>4, <2>7, <3>1, <3>2, <3>3
      <4> QED
        BY <4>1
    <3>5. Discrete!Next2(d, x) = Pos(n, d, q)
      BY <2>1, <2>5, <3>2
    <3> QED
      BY <2>7, <2>8, <3>4, <3>5
  <2> QED
    BY <2>9, <2>10
<1>40. CASE ~(x >= d.x[d.add]) /\ ~(x >= d.x[d.old])
  <2>1. Discrete!Next2(d, x) = Bwd(n, d.old, Least(B))
    BY <1>40, ChangesSteps DEF Discrete!Next2, Discrete!Min, Least
  <2>2. x < At(n, d, o)
    BY <1>2, <1>4, <1>6, <1>40
  <2>3. o # 0
    <3>1. At(n, d, 0) \in Int
      BY <1>1, <1>3
    <3> QED
      BY <2>2, <3>1
  <2>4. o \in B
    <3>1. o \in 0 .. o /\ o - o = 0 /\ o \in 0 .. n - 1 \ {0}
      BY <1>6, <2>3
    <3>2. Bwd(n, d.old, o) = Pos(n, d, 0)
      BY <1>8, <3>1
    <3>3. x >= At(n, d, 0)
      BY <1>1, <1>3
    <3> QED
      BY <1>4, <3>1, <3>2, <3>3
  <2>5. PICK k \in B : k = Least(B) /\ \A i \in B : k <= i
    <3>1. B \subseteq Nat /\ B # {}
      BY <2>4
    <3> HIDE DEF B
    <3> QED
      BY <3>1, LeastIs
  <2>6. k \in 1 .. o /\ k \in 0 .. o
    BY <1>6, <2>4, <2>5
  <2> DEFINE q == o - k
  <2>7. /\ q \in 0 .. m /\ q \in 0 .. n - 1 /\ q + 1 = o - (k - 1) /\ q + 1 \in 0 .. n - 1
        /\ k - 1 \in 0 .. o /\ k - 1 \in 0 .. n - 1 /\ ~(k <= k - 1)
    BY <1>1, <1>2, <2>6
  <2>8. Discrete!Next2(d, x) = Pos(n, d, q)
    BY <1>8, <2>1, <2>5, <2>6
  <2>9. At(n, d, q) <= x
    <3>1. x >= At(n, d, q) /\ At(n, d, q) \in Int
      BY <1>3, <1>4, <1>8, <2>5, <2>6, <2>7
    <3> QED
      BY <3>1
  <2>10. x < At(n, d, q + 1)
    <3>1. CASE k = 1
      <4>1. q + 1 = o
        BY <1>6, <3>1
      <4> QED
        BY <2>2, <4>1
    <3>2. CASE k # 1
      <4>1. ~(x >= d.x[Bwd(n, d.old, k - 1)])
        <5>1. k - 1 # 0
          BY <2>6, <3>2
        <5> QED
          BY <2>5, <2>7, <5>1
      <4>2. Bwd(n, d.old, k - 1) = Pos(n, d, q + 1)
        BY <1>8, <2>7
      <4>3. ~(x >= At(n, d, q + 1)) /\ At(n, d, q + 1) \in Int
        BY <1>3, <1>4, <2>7, <4>1, <4>2
      <4> QED
        BY <4>3
    <3> QED
      BY <3>1, <3>2
  <2> QED
    BY <2>7, <2>8, <2>9, <2>10
<1> QED
  BY <1>20, <1>30, <1>40

----------------------------------------------------------------------------
(* The run of a discrete delay.                                            *)

Last(d) == Held(Changes, d)
Changed(d, i) == At(Changes, d, i)
Change(d, i) == Of(Changes, d, i)

(* The ring holds the changes of the signal h: each in h, and each value   *)
(* of h since the oldest one held is that of the latest change before it.  *)
Tells(d, h, t) ==
    /\ d \in Rings(Changes, Levels) /\ Spread(Changes, d)
    /\ \A p \in 0 .. Changes - 1 : d.x[p] \in Discrete!Instants
    /\ Changed(d, 0) < t /\ Changed(d, Last(d)) <= t
    /\ \A i \in 0 .. Last(d) : Change(d, i) \in h
    /\ \A s \in h : Changed(d, 0) <= s[1] =>
          \E i \in 0 .. Last(d) : /\ Changed(d, i) <= s[1]
                                  /\ i = Last(d) \/ s[1] < Changed(d, i + 1)
                                  /\ Change(d, i)[2] = s[2]

(* The change now answered is the latest that came due, or the next one    *)
(* comes due just now or did an instant ago.                               *)
Answers(d, x) ==
    \E o \in 0 .. Last(d) : /\ d.old = Pos(Changes, d, o)
                            /\ Changed(d, o) <= x
                            /\ o = Last(d) \/ x <= Changed(d, o + 1) + 1

ChangeInv ==
    /\ Discrete!TypeOK
    /\ ~allocated => hist = {} /\ ~failed
    /\ allocated => /\ Tells(del, hist, now)
                    /\ ~failed => Answers(del, now - Delay)

(* There are fewer changes in a Delay than the ring has entries. *)
ChangesFit == Delay < Changes

(* The type of a ring, in the words of the model and of these proofs.      *)
LEMMA ChangeTypes ==
    ASSUME NEW d
    PROVE  d \in [x : [Discrete!Positions -> Discrete!Instants],
                  y : [Discrete!Positions -> Levels],
                  first : Discrete!Positions, add : Discrete!Positions, old : Discrete!Positions]
           <=> d \in Rings(Changes, Levels) /\ \A p \in 0 .. Changes - 1 : d.x[p] \in Discrete!Instants
<1>1. Discrete!Positions = 0 .. Changes - 1
  BY ChangesSteps
<1>2. Discrete!Instants \subseteq Int
  BY ChangesConstants DEF Discrete!Instants
<1> DEFINE E == 0 .. Changes - 1
<1>3. \A f : f \in [E -> Discrete!Instants]
             <=> f \in [E -> Int] /\ \A p \in E : f[p] \in Discrete!Instants
  <2> HIDE DEF E
  <2> QED
    BY <1>2
<1> QED
  BY <1>1, <1>3 DEF Rings

(* A change at t, or the same value once more. *)
LEMMA ChangeIsTold ==
    ASSUME NEW d, NEW h, NEW before \in Int, Tells(d, h, before), NEW t \in 0 .. EventHorizon, before <= t,
           NEW v \in Levels, h \in SUBSET (Discrete!Instants \X Levels)
    PROVE  LET w == Discrete!Write(d, t, v)
           IN  Tells(w, {s \in h : s[1] < t} \cup {<<t, v>>}, t)
<1> DEFINE n == Changes
           w == Discrete!Write(d, t, v)
           m == Last(d)
           k == Last(w)
           g == {s \in h : s[1] < t} \cup {<<t, v>>}
<1>1. /\ d \in Rings(n, Levels) /\ Spread(n, d)
      /\ \A p \in 0 .. n - 1 : d.x[p] \in Discrete!Instants
      /\ Changed(d, 0) < before
      /\ \A i \in 0 .. m : Change(d, i) \in h
      /\ \A s \in h : Changed(d, 0) <= s[1] =>
            \E i \in 0 .. m : /\ Changed(d, i) <= s[1]
                              /\ i = m \/ s[1] < Changed(d, i + 1)
                              /\ Change(d, i)[2] = s[2]
  BY DEF Tells
<1>2. n \in Sizes /\ n \in Nat /\ n >= 5 /\ t \in Int
  BY ChangesConstants
<1>3. 0 \in 0 .. n - 1 /\ n - 1 \in 0 .. n - 1
  BY <1>2
<1>4. Changed(d, 0) < t /\ Changed(d, 0) \in Int
  <2>1. Changed(d, 0) \in Int
    BY <1>1, <1>2, <1>3, PlacesAre DEF Changed
  <2> QED
    BY <1>1, <1>2, <2>1
<1>5. /\ w \in Rings(n, Levels) /\ Spread(n, w)
      /\ \A p \in 0 .. n - 1 : w.x[p] = t \/ w.x[p] = d.x[p]
      /\ \/ /\ w.first = d.first /\ k <= m
            /\ \A i \in 0 .. k : Change(w, i) = Change(d, i) /\ Changed(d, i) < t
            /\ \A i \in k + 1 .. m : Changed(d, i) >= t
            /\ Change(w, k)[2] = v
         \/ /\ w.first = d.first /\ k \in 1 .. m + 1
            /\ \A i \in 0 .. k - 1 : Change(w, i) = Change(d, i) /\ Changed(d, i) < t
            /\ \A i \in k .. m : Changed(d, i) >= t
            /\ Change(w, k) = <<t, v>>
         \/ /\ w.first = Pos(n, d, 1) /\ m = n - 1 /\ k = n - 1
            /\ \A i \in 0 .. k - 1 : Change(w, i) = Change(d, i + 1)
            /\ \A i \in 0 .. m : Changed(d, i) < t
            /\ Change(w, k) = <<t, v>>
  BY <1>1, <1>2, <1>4, ChangeIs DEF Last, Changed, Change
<1> HIDE DEF w, m, k, g
<1>6. /\ m \in 0 .. n - 1 /\ k \in 0 .. n - 1
      /\ \A i : Change(w, i)[1] = Changed(w, i) /\ Change(d, i)[1] = Changed(d, i)
      /\ \A i \in 0 .. n - 1 : Changed(w, i) \in Int /\ Changed(d, i) \in Int
  BY <1>1, <1>2, <1>5, PlacesAre DEF Last, Changed, Change, m, k
<1>11. m \in 0 .. n - 1 /\ k \in 0 .. n - 1 /\ n \in Nat /\ n >= 5
  <2> HIDE DEF n
  <2> QED
    BY <1>2, <1>6
<1>7. \A p \in 0 .. n - 1 : w.x[p] \in Discrete!Instants
  <2>1. t \in Discrete!Instants
    BY ChangesConstants DEF Discrete!Instants
  <2> QED
    BY <1>1, <1>5, <2>1
<1>8. \A s \in h : s[1] \in Int
  BY ChangesConstants DEF Discrete!Instants
<1>9. SUFFICES /\ Changed(w, 0) < t /\ Changed(w, k) <= t
               /\ \A i \in 0 .. k : Change(w, i) \in g
               /\ \A s \in g : Changed(w, 0) <= s[1] =>
                    \E i \in 0 .. k : /\ Changed(w, i) <= s[1]
                                      /\ i = k \/ s[1] < Changed(w, i + 1)
                                      /\ Change(w, i)[2] = s[2]
  BY <1>5, <1>7 DEF Tells, w, k, g
(* It is enough that the latest value is told, and each earlier one as before. *)
<1>10. ASSUME Changed(w, 0) < t, Changed(w, k) <= t, Change(w, k)[2] = v,
              \A i \in 0 .. k - 1 : Change(w, i) \in h /\ Changed(w, i) < t,
              Change(w, k) = <<t, v>> \/ (Change(w, k) \in h /\ Changed(w, k) < t),
              \A s \in h : Changed(w, 0) <= s[1] /\ s[1] < t =>
                 \E i \in 0 .. k : /\ Changed(w, i) <= s[1]
                                   /\ i = k \/ s[1] < Changed(w, i + 1)
                                   /\ Change(w, i)[2] = s[2]
       PROVE  /\ Changed(w, 0) < t /\ Changed(w, k) <= t
              /\ \A i \in 0 .. k : Change(w, i) \in g
              /\ \A s \in g : Changed(w, 0) <= s[1] =>
                   \E i \in 0 .. k : /\ Changed(w, i) <= s[1]
                                     /\ i = k \/ s[1] < Changed(w, i + 1)
                                     /\ Change(w, i)[2] = s[2]
  <2>1. ASSUME NEW i \in 0 .. k
        PROVE  Change(w, i) \in g
    <3>1. i \in 0 .. k - 1 \/ i = k
      BY <1>6
    <3>2. Change(w, i) = <<t, v>> \/ (Change(w, i) \in h /\ Changed(w, i) < t)
      BY <1>10, <3>1
    <3> QED
      BY <1>6, <3>2 DEF g
  <2>2. ASSUME NEW s \in g, Changed(w, 0) <= s[1]
        PROVE  \E i \in 0 .. k : /\ Changed(w, i) <= s[1]
                                 /\ i = k \/ s[1] < Changed(w, i + 1)
                                 /\ Change(w, i)[2] = s[2]
    <3>1. CASE s = <<t, v>>
      <4>1. k \in 0 .. k
        BY <1>6
      <4> QED
        BY <1>10, <3>1, <4>1
    <3>2. CASE s \in h /\ s[1] < t
      BY <1>10, <2>2, <3>2
    <3> QED
      BY <3>1, <3>2 DEF g
  <2> QED
    BY <1>10, <2>1, <2>2
<1>20. CASE /\ w.first = d.first /\ k <= m
            /\ \A i \in 0 .. k : Change(w, i) = Change(d, i) /\ Changed(d, i) < t
            /\ \A i \in k + 1 .. m : Changed(d, i) >= t
            /\ Change(w, k)[2] = v
  <2>6. k <= m
    BY <1>20
  <2>1. 0 \in 0 .. k /\ k \in 0 .. k /\ \A i \in 0 .. k : i \in 0 .. m /\ i \in 0 .. n - 1
    <3> HIDE DEF n
    <3> QED
      BY <1>11, <2>6
  <2>2. \A i \in 0 .. k : Changed(w, i) = Changed(d, i) /\ Changed(w, i) < t /\ Change(w, i) \in h
    BY <1>1, <1>6, <1>20, <2>1
  <2>3. Changed(w, k) <= t
    BY <1>2, <1>6, <2>1, <2>2
  <2>4. ASSUME NEW s \in h, Changed(w, 0) <= s[1], s[1] < t
        PROVE  \E i \in 0 .. k : /\ Changed(w, i) <= s[1]
                                 /\ i = k \/ s[1] < Changed(w, i + 1)
                                 /\ Change(w, i)[2] = s[2]
    <3>1. Changed(d, 0) <= s[1]
      BY <2>1, <2>2, <2>4
    <3>2. PICK i \in 0 .. m : /\ Changed(d, i) <= s[1]
                              /\ i = m \/ s[1] < Changed(d, i + 1)
                              /\ Change(d, i)[2] = s[2]
      BY <1>1, <3>1
    <3>3. i \in 0 .. k
      <4> SUFFICES ASSUME i \notin 0 .. k PROVE FALSE
        OBVIOUS
      <4>1. i \in k + 1 .. m /\ i \in 0 .. n - 1
        <5> HIDE DEF n
        <5> QED
          BY <1>11
      <4>2. Changed(d, i) >= t /\ Changed(d, i) \in Int /\ s[1] \in Int
        BY <1>6, <1>8, <1>20, <4>1
      <4> QED
        BY <1>2, <2>4, <3>2, <4>2
    <3>4. i = k \/ s[1] < Changed(w, i + 1)
      <4> SUFFICES ASSUME i # k PROVE s[1] < Changed(w, i + 1)
        OBVIOUS
      <4>1. i + 1 \in 0 .. k /\ i # m
        BY <1>6, <1>20, <3>3
      <4> QED
        BY <2>2, <3>2, <4>1
    <3>5. Changed(w, i) = Changed(d, i) /\ Change(w, i) = Change(d, i)
      BY <2>2, <1>20, <3>3
    <3> QED
      BY <3>2, <3>3, <3>4, <3>5
  <2>5. \A i \in 0 .. k - 1 : i \in 0 .. k
    BY <1>6
  <2> QED
    BY <1>10, <1>20, <2>1, <2>2, <2>3, <2>4, <2>5
<1>30. CASE /\ w.first = d.first /\ k \in 1 .. m + 1
            /\ \A i \in 0 .. k - 1 : Change(w, i) = Change(d, i) /\ Changed(d, i) < t
            /\ \A i \in k .. m : Changed(d, i) >= t
            /\ Change(w, k) = <<t, v>>
  <2>6. k \in 1 .. m + 1
    BY <1>30
  <2>1. 0 \in 0 .. k - 1 /\ \A i \in 0 .. k - 1 : i \in 0 .. m /\ i \in 0 .. n - 1
    <3> HIDE DEF n
    <3> QED
      BY <1>11, <2>6
  <2>2. \A i \in 0 .. k - 1 : Changed(w, i) = Changed(d, i) /\ Changed(w, i) < t /\ Change(w, i) \in h
    BY <1>1, <1>6, <1>30, <2>1
  <2>3. Changed(w, k) = t /\ Changed(w, k) <= t
    BY <1>2, <1>6, <1>30
  <2>4. ASSUME NEW s \in h, Changed(w, 0) <= s[1], s[1] < t
        PROVE  \E i \in 0 .. k : /\ Changed(w, i) <= s[1]
                                 /\ i = k \/ s[1] < Changed(w, i + 1)
                                 /\ Change(w, i)[2] = s[2]
    <3>1. Changed(d, 0) <= s[1]
      BY <2>1, <2>2, <2>4
    <3>2. PICK i \in 0 .. m : /\ Changed(d, i) <= s[1]
                              /\ i = m \/ s[1] < Changed(d, i + 1)
                              /\ Change(d, i)[2] = s[2]
      BY <1>1, <3>1
    <3>3. i \in 0 .. k - 1
      <4> SUFFICES ASSUME i \notin 0 .. k - 1 PROVE FALSE
        OBVIOUS
      <4>1. i \in k .. m /\ i \in 0 .. n - 1
        <5> HIDE DEF n
        <5> QED
          BY <1>11
      <4>2. Changed(d, i) >= t /\ Changed(d, i) \in Int /\ s[1] \in Int
        BY <1>6, <1>8, <1>30, <4>1
      <4> QED
        BY <1>2, <2>4, <3>2, <4>2
    <3>4. s[1] < Changed(w, i + 1) /\ i \in 0 .. k
      <4>1. CASE i = k - 1
        <5>1. i + 1 = k /\ i \in 0 .. k
          BY <1>6, <3>3, <4>1
        <5> QED
          BY <2>3, <2>4, <5>1
      <4>2. CASE i # k - 1
        <5>1. i + 1 \in 0 .. k - 1 /\ i # m /\ i \in 0 .. k
          BY <1>6, <1>30, <3>3, <4>2
        <5> QED
          BY <2>2, <3>2, <5>1
      <4> QED
        BY <4>1, <4>2
    <3>5. Changed(w, i) = Changed(d, i) /\ Change(w, i) = Change(d, i)
      BY <2>2, <1>30, <3>3
    <3> QED
      BY <3>2, <3>4, <3>5
  <2>5. Change(w, k)[2] = v
    BY <1>30
  <2> QED
    BY <1>10, <1>30, <2>1, <2>2, <2>3, <2>4, <2>5
<1>40. CASE /\ w.first = Pos(n, d, 1) /\ m = n - 1 /\ k = n - 1
            /\ \A i \in 0 .. k - 1 : Change(w, i) = Change(d, i + 1)
            /\ \A i \in 0 .. m : Changed(d, i) < t
            /\ Change(w, k) = <<t, v>>
  <2>1. 0 \in 0 .. k - 1 /\ \A i \in 0 .. k - 1 : i + 1 \in 0 .. m /\ i + 1 \in 0 .. n - 1
    BY <1>2, <1>40
  <2>2. \A i \in 0 .. k - 1 : Changed(w, i) = Changed(d, i + 1) /\ Changed(w, i) < t /\ Change(w, i) \in h
    BY <1>1, <1>6, <1>40, <2>1
  <2>3. Changed(w, k) = t /\ Changed(w, k) <= t
    BY <1>2, <1>6, <1>40
  <2>4. ASSUME NEW s \in h, Changed(w, 0) <= s[1], s[1] < t
        PROVE  \E i \in 0 .. k : /\ Changed(w, i) <= s[1]
                                 /\ i = k \/ s[1] < Changed(w, i + 1)
                                 /\ Change(w, i)[2] = s[2]
    <3>1. Changed(w, 0) = Changed(d, 1) /\ 1 \in 0 .. m /\ 1 \in 0 .. n - 1 /\ 0 <= 1
      BY <1>2, <1>40, <2>1, <2>2
    <3>2. Changed(d, 1) - Changed(d, 0) >= 1 - 0
      BY <1>1, <3>1, <1>6 DEF Spread, Changed, Last, m
    <3>3. Changed(d, 0) <= s[1] /\ Changed(d, 1) <= s[1] /\ s[1] \in Int /\ Changed(d, 1) \in Int
      BY <1>3, <1>6, <1>8, <2>4, <3>1, <3>2
    <3>4. PICK i \in 0 .. m : /\ Changed(d, i) <= s[1]
                              /\ i = m \/ s[1] < Changed(d, i + 1)
                              /\ Change(d, i)[2] = s[2]
      BY <1>1, <3>3
    <3>5. i # 0
      <4>1. CASE i = 0
        <5>1. i # m /\ i + 1 = 1
          BY <1>2, <1>40, <4>1
        <5> QED
          BY <3>3, <3>4, <5>1
      <4> QED
        BY <4>1
    <3> DEFINE j == i - 1
    <3>6. j \in 0 .. k - 1 /\ j \in 0 .. k /\ j + 1 = i
      BY <1>2, <1>40, <3>5
    <3> HIDE DEF j
    <3>7. Changed(w, j) = Changed(d, i) /\ Change(w, j) = Change(d, i)
      BY <1>40, <2>2, <3>6
    <3>8. s[1] < Changed(w, j + 1)
      <4>1. CASE i = m
        <5>1. j + 1 = k
          BY <1>40, <3>6, <4>1
        <5> QED
          BY <2>3, <2>4, <5>1
      <4>2. CASE i # m
        <5>1. j + 1 \in 0 .. k - 1 /\ j + 1 + 1 = i + 1
          BY <1>2, <1>40, <3>6, <4>2
        <5>2. Changed(w, j + 1) = Changed(d, i + 1)
          BY <2>2, <5>1
        <5> QED
          BY <3>4, <4>2, <5>2
      <4> QED
        BY <4>1, <4>2
    <3> QED
      BY <3>4, <3>6, <3>7, <3>8
  <2>5. Change(w, k)[2] = v
    BY <1>40
  <2> QED
    BY <1>10, <1>40, <2>1, <2>2, <2>3, <2>4, <2>5
<1> QED
  BY <1>5, <1>20, <1>30, <1>40

(* Neighbouring entries are at neighbouring positions, in order. *)
LEMMA NextChange ==
    ASSUME NEW d \in Rings(Changes, Levels), Spread(Changes, d)
    PROVE  /\ Last(d) \in 0 .. Changes - 1
           /\ d.add = Pos(Changes, d, Last(d))
           /\ \A i \in 0 .. Last(d) : Changed(d, i) \in Int
           /\ \A i, j \in 0 .. Last(d) : i <= j => Changed(d, i) <= Changed(d, j)
           /\ \A i \in 0 .. Last(d) : i # Last(d) =>
                 /\ i + 1 \in 0 .. Last(d)
                 /\ Pos(Changes, d, i) # d.add
                 /\ Discrete!After(Pos(Changes, d, i)) = Pos(Changes, d, i + 1)
<1> DEFINE n == Changes
           m == Last(d)
           f == d.first
<1>1. /\ n \in Sizes /\ m \in 0 .. n - 1 /\ d.add = Pos(n, d, m)
      /\ \A i \in 0 .. n - 1 : Changed(d, i) \in Int
  BY ChangesConstants, PlacesAre DEF Last, Changed
<1>2. n \in Nat /\ n >= 5 /\ m \in 0 .. n - 1 /\ f \in 0 .. n - 1
  BY <1>1, ChangesConstants DEF Rings
<1>3. \A i \in 0 .. m : i \in 0 .. n - 1
  <2> HIDE DEF n, m
  <2> QED
    BY <1>2
<1>4. \A i, j \in 0 .. m : i <= j => Changed(d, i) <= Changed(d, j)
  <2> TAKE i \in 0 .. m, j \in 0 .. m
  <2> HAVE i <= j
  <2>1. Changed(d, j) - Changed(d, i) >= j - i
    BY DEF Spread, Changed, Last
  <2>2. Changed(d, i) \in Int /\ Changed(d, j) \in Int /\ i \in Int /\ j \in Int
    BY <1>1, <1>3
  <2> HIDE DEF n, m
  <2> QED
    BY <2>1, <2>2
<1>5. ASSUME NEW i \in 0 .. m, i # m
      PROVE  /\ i + 1 \in 0 .. m
             /\ Pos(n, d, i) # d.add
             /\ Discrete!After(Pos(n, d, i)) = Pos(n, d, i + 1)
  <2>1. i + 1 \in 0 .. m /\ i \in 0 .. n - 1
    <3> HIDE DEF n, m
    <3> QED
      BY <1>2, <1>5
  <2>2. Pos(n, d, i) # d.add
    BY <1>1, <1>2, <1>5, <2>1, PositionsDiffer DEF Pos
  <2>3. Fwd(n, Fwd(n, f, i), 1) = Fwd(n, f, i + 1)
    <3> HIDE DEF n, m, f
    <3> QED
      BY <1>2, <2>1 DEF Fwd
  <2> QED
    BY <2>1, <2>2, <2>3, ChangesSteps DEF Pos, Discrete!After
<1> QED
  BY <1>1, <1>3, <1>4, <1>5

(* Where the next look-up begins is no part of what is told. *)
LEMMA ToldWherever ==
    ASSUME NEW d, NEW h, NEW t, Tells(d, h, t), NEW o \in 0 .. Changes - 1
    PROVE  /\ Tells([d EXCEPT !.old = o], h, t)
           /\ Last([d EXCEPT !.old = o]) = Last(d)
           /\ \A i : /\ Changed([d EXCEPT !.old = o], i) = Changed(d, i)
                     /\ Pos(Changes, [d EXCEPT !.old = o], i) = Pos(Changes, d, i)
<1> DEFINE e == [d EXCEPT !.old = o]
<1>1. d \in Rings(Changes, Levels)
  BY DEF Tells
<1>2. /\ e \in Rings(Changes, Levels)
      /\ e.x = d.x /\ e.y = d.y /\ e.first = d.first /\ e.add = d.add
  BY <1>1 DEF Rings
<1> HIDE DEF e
<1>3. /\ Last(e) = Last(d)
      /\ \A i : /\ Changed(e, i) = Changed(d, i) /\ Change(e, i) = Change(d, i)
                /\ Pos(Changes, e, i) = Pos(Changes, d, i)
  BY <1>2 DEF Last, Changed, Change, Held, At, Of, Pos
<1>4. Spread(Changes, e)
  BY <1>3 DEF Tells, Spread, Last, Changed
<1>5. Tells(e, h, t)
  BY <1>2, <1>3, <1>4 DEF Tells
<1> QED
  BY <1>3, <1>5 DEF e

(* The first event begins the ring, and the history, with one entry. *)
LEMMA FirstEvent ==
    ASSUME NEW v \in Levels, del \in Rings(Changes, Levels), now \in 0 .. EventHorizon,
           \A p \in 0 .. Changes - 1 : del.x[p] \in Discrete!Instants,
           ~allocated, hist = {}
    PROVE  LET w == Discrete!Write(Discrete!Ready(now, v), now, v)
           IN  /\ Tells(w, {<<now - Delay - Past, v>>}, now)
               /\ w.old = Pos(Changes, w, 0)
               /\ Changed(w, 0) <= now - Delay
<1> DEFINE n == Changes
           b == now - Delay - Past
           r == Discrete!Ready(now, v)
           w == Discrete!Write(r, now, v)
           X == [del.x EXCEPT ![0] = b, ![1] = now]
           Y == [del.y EXCEPT ![0] = v, ![1] = v]
<1>1. /\ n \in Sizes /\ n \in Nat /\ n >= 5 /\ Delay \in Nat /\ Delay >= 1 /\ Past \in Nat
      /\ EventHorizon \in Nat
  BY ChangesConstants
<1>2. now \in Int /\ b \in Int /\ b < now /\ b <= now - Delay
  BY <1>1
<1>3. 0 \in 0 .. n - 1 /\ 1 \in 0 .. n - 1 /\ 0 # 1
  BY <1>1
<1>4. r = [x |-> X, y |-> Y, first |-> 0, add |-> 0, old |-> 0]
  BY DEF Discrete!Ready, Discrete!Initialised
<1>5. b \in Discrete!Instants /\ now \in Discrete!Instants
  BY <1>1, <1>2 DEF Discrete!Instants
<1>6. /\ X \in [0 .. n - 1 -> Int] /\ X[0] = b
      /\ \A p \in 0 .. n - 1 : X[p] \in Discrete!Instants
      /\ Y \in [0 .. n - 1 -> Levels] /\ Y[0] = v
  <2> DEFINE E == 0 .. n - 1
  <2>1. del.x \in [E -> Int] /\ del.y \in [E -> Levels]
    BY DEF Rings
  <2> HIDE DEF E, b, n
  <2>2. 0 \in E /\ 1 \in E
    BY <1>3 DEF E, n
  <2>3. X \in [E -> Int] /\ Y \in [E -> Levels] /\ X[0] = b /\ Y[0] = v
    BY <2>1, <2>2, <1>2
  <2>4. \A p \in E : X[p] = b \/ X[p] = now \/ X[p] = del.x[p]
    BY <2>1
  <2>5. \A p \in E : del.x[p] \in Discrete!Instants
    BY DEF E, n
  <2> QED
    BY <2>3, <2>4, <2>5, <1>5 DEF E, n
<1> HIDE DEF X, Y
<1>7. /\ r \in Rings(n, Levels) /\ r.first = 0 /\ r.add = 0 /\ r.old = 0
      /\ r.x = X /\ r.y = Y
  BY <1>3, <1>4, <1>6 DEF Rings
<1> HIDE DEF r
<1>8. /\ Last(r) = 0
      /\ Pos(n, r, 0) = 0 /\ Change(r, 0) = <<b, v>> /\ Changed(r, 0) = b
  <2>1. Dist(n, 0, 0) = 0 /\ Fwd(n, 0, 0) = 0
    BY <1>1 DEF Dist, Fwd
  <2> QED
    BY <2>1, <1>6, <1>7 DEF Last, Held, Change, Of, Changed, At, Pos
<1>9. Spread(n, r)
  <2> SUFFICES ASSUME NEW i \in 0 .. 0, NEW j \in 0 .. 0
               PROVE  At(n, r, j) - At(n, r, i) >= j - i
    BY <1>8 DEF Spread, Last
  <2>1. i = 0 /\ j = 0
    OBVIOUS
  <2> QED
    BY <2>1, <1>2, <1>8 DEF Changed
<1>10. At(n, r, 0) < now /\ now \in Int
  BY <1>2, <1>8 DEF Changed
<1> DEFINE k == Last(w)
<1>11. /\ w \in Rings(n, Levels) /\ Spread(n, w) /\ w.old = r.old
       /\ \A p \in 0 .. n - 1 : w.x[p] = now \/ w.x[p] = r.x[p]
       /\ \/ /\ w.first = r.first /\ k <= 0
             /\ \A i \in 0 .. k : Change(w, i) = Change(r, i)
          \/ /\ w.first = r.first /\ k \in 1 .. 0 + 1
             /\ Change(r, k - 1)[2] # v
          \/ 0 = n - 1
  <2>1. Held(n, r) = 0
    BY <1>8 DEF Last
  <2> HIDE DEF w
  <2>2. LET ww == Discrete!Write(r, now, v)
            m == Held(n, r)
            kk == Held(n, ww)
        IN  /\ ww \in Rings(n, Levels) /\ Spread(n, ww) /\ ww.old = r.old
            /\ \A p \in 0 .. n - 1 : ww.x[p] = now \/ ww.x[p] = r.x[p]
            /\ \/ /\ ww.first = r.first /\ kk <= m
                  /\ \A i \in 0 .. kk : Of(n, ww, i) = Of(n, r, i)
               \/ /\ ww.first = r.first /\ kk \in 1 .. m + 1
                  /\ Of(n, r, kk - 1)[2] # v
               \/ m = n - 1
    BY ChangeIs, <1>1, <1>7, <1>9, <1>10
  <2> QED
    BY <2>1, <2>2 DEF Last, Change, w
<1> HIDE DEF w, k
<1>12. w.first = 0 /\ k = 0 /\ Change(w, 0) = Change(r, 0)
  <2>1. k \in 0 .. n - 1
    BY <1>1, <1>11, PlacesAre DEF Last, k
  <2>2. 0 # n - 1
    BY <1>1
  <2>3. CASE /\ w.first = r.first /\ k <= 0
             /\ \A i \in 0 .. k : Change(w, i) = Change(r, i)
    <3>1. k = 0 /\ 0 \in 0 .. k
      BY <2>1, <2>3
    <3> QED
      BY <1>7, <2>3, <3>1
  <2>4. CASE /\ w.first = r.first /\ k \in 1 .. 0 + 1
             /\ Change(r, k - 1)[2] # v
    <3>1. k - 1 = 0
      BY <2>4
    <3> QED
      BY <1>8, <2>4, <3>1
  <2> QED
    BY <1>11, <2>2, <2>3, <2>4
<1>13. Change(w, 0) = <<b, v>> /\ Changed(w, 0) = b
  BY <1>8, <1>12 DEF Change, Changed, Of, At
<1>14. \A p \in 0 .. n - 1 : w.x[p] \in Discrete!Instants
  BY <1>5, <1>6, <1>7, <1>11
<1>15. 0 .. k = {0} /\ b <= now
  BY <1>2, <1>12
<1>16. Tells(w, {<<b, v>>}, now)
  <2>1. /\ Changed(w, 0) < now /\ Changed(w, k) <= now
        /\ \A i \in 0 .. k : Change(w, i) \in {<<b, v>>}
    BY <1>2, <1>12, <1>13, <1>15
  <2>2. ASSUME NEW s \in {<<b, v>>}
        PROVE  \E i \in 0 .. k : /\ Changed(w, i) <= s[1]
                                 /\ i = k \/ s[1] < Changed(w, i + 1)
                                 /\ Change(w, i)[2] = s[2]
    <3>1. s[1] = b /\ s[2] = v /\ b <= b
      BY <1>2
    <3>2. Changed(w, 0) <= s[1] /\ Change(w, 0)[2] = s[2] /\ 0 = k
      BY <1>12, <1>13, <3>1
    <3> QED
      BY <1>15, <3>2
  <2> QED
    BY <1>11, <1>14, <2>1, <2>2 DEF Tells, k
<1>17. w.old = Pos(n, w, 0)
  BY <1>1, <1>7, <1>11, <1>12 DEF Pos, Fwd
<1> QED
  BY <1>2, <1>13, <1>16, <1>17 DEF w, r

(* A later event tells of its change, and the change answered before it is *)
(* still at a place of the ring; with fewer changes in a Delay than the    *)
(* ring has entries the one forgotten is older than what is due.           *)
LEMMA LaterEvent ==
    ASSUME NEW d, NEW h, h \in SUBSET (Discrete!Instants \X Levels),
           NEW t \in 0 .. EventHorizon, Tells(d, h, t), Answers(d, t - Delay), NEW v \in Levels
    PROVE  LET w == Discrete!Write(d, t, v)
           IN  /\ Tells(w, {s \in h : s[1] < t} \cup {<<t, v>>}, t)
               /\ \E o \in 0 .. Last(w) : w.old = Pos(Changes, w, o)
               /\ ChangesFit => Changed(w, 0) <= t - Delay
<1> DEFINE n == Changes
           w == Discrete!Write(d, t, v)
           m == Last(d)
           k == Last(w)
           x == t - Delay
<1>1. /\ n \in Sizes /\ n \in Nat /\ n >= 5 /\ Delay \in Nat /\ Delay >= 1 /\ t \in Int
      /\ x \in Int /\ x < t /\ t <= t
  BY ChangesConstants
<1>2. Tells(w, {s \in h : s[1] < t} \cup {<<t, v>>}, t)
  BY <1>1, ChangeIsTold
<1>3. d \in Rings(n, Levels) /\ Spread(n, d) /\ Changed(d, 0) < t
  BY DEF Tells
<1>4. PICK o \in 0 .. m : /\ d.old = Pos(n, d, o)
                          /\ Changed(d, o) <= x
  BY DEF Answers
<1>5. /\ m \in 0 .. n - 1
      /\ \A i \in 0 .. m : Changed(d, i) \in Int
      /\ \A i, j \in 0 .. m : i <= j => Changed(d, i) <= Changed(d, j)
      /\ \A i \in 0 .. m : i # m => i + 1 \in 0 .. m
  BY <1>3, NextChange
<1>6. /\ w.old = d.old
      /\ \/ /\ w.first = d.first
            /\ \A i \in 0 .. k : Change(w, i) = Change(d, i)
            /\ \A i \in k + 1 .. m : Changed(d, i) >= t
         \/ /\ w.first = d.first /\ k \in 1 .. m + 1
            /\ \A i \in 0 .. k - 1 : Change(w, i) = Change(d, i)
            /\ \A i \in k .. m : Changed(d, i) >= t
         \/ /\ w.first = Pos(n, d, 1) /\ m = n - 1 /\ k = n - 1
            /\ \A i \in 0 .. k - 1 : Change(w, i) = Change(d, i + 1)
            /\ \A i \in 0 .. m : Changed(d, i) < t
  BY <1>1, <1>3, ChangeIs DEF Last, Changed, Change
<1> HIDE DEF w, m, k
<1>7. k \in 0 .. n - 1
  BY <1>1, <1>2, NextChange DEF Tells, k, w
<1>8. /\ \A i : Change(w, i)[1] = Changed(w, i) /\ Change(d, i)[1] = Changed(d, i)
      /\ \A i : w.first = d.first => Pos(n, w, i) = Pos(n, d, i)
  BY DEF Change, Changed, Of, At, Pos
<1>12. SUFFICES /\ \E i \in 0 .. k : w.old = Pos(n, w, i)
                /\ ChangesFit => Changed(w, 0) <= x
  BY <1>2 DEF w, k
<1>9. 0 \in 0 .. m /\ o \in 0 .. n - 1 /\ 0 <= o /\ o \in Int
  <2> HIDE DEF n
  <2> QED
    BY <1>1, <1>5
<1>10. Changed(d, 0) <= x
  BY <1>1, <1>4, <1>5, <1>9
<1>11. Changed(d, o) < t
  BY <1>1, <1>4, <1>5
<1>20. ASSUME w.first = d.first, o \in 0 .. k, Change(w, 0) = Change(d, 0)
       PROVE  /\ \E i \in 0 .. k : w.old = Pos(n, w, i)
              /\ ChangesFit => Changed(w, 0) <= x
  BY <1>4, <1>6, <1>8, <1>10, <1>20
<1>30. CASE /\ w.first = d.first
            /\ \A i \in 0 .. k : Change(w, i) = Change(d, i)
            /\ \A i \in k + 1 .. m : Changed(d, i) >= t
  <2>1. o \in 0 .. k
    <3> SUFFICES ASSUME o \notin 0 .. k PROVE FALSE
      OBVIOUS
    <3>1. o \in k + 1 .. m
      <4> HIDE DEF n
      <4> QED
        BY <1>4, <1>5, <1>7
    <3> QED
      BY <1>1, <1>5, <1>11, <1>30, <3>1
  <2>2. 0 \in 0 .. k
    <3> HIDE DEF n
    <3> QED
      BY <1>7
  <2> QED
    BY <1>20, <1>30, <2>1, <2>2
<1>40. CASE /\ w.first = d.first /\ k \in 1 .. m + 1
            /\ \A i \in 0 .. k - 1 : Change(w, i) = Change(d, i)
            /\ \A i \in k .. m : Changed(d, i) >= t
  <2>1. o \in 0 .. k
    <3> SUFFICES ASSUME o \notin 0 .. k PROVE FALSE
      OBVIOUS
    <3>1. o \in k .. m
      <4> HIDE DEF n
      <4> QED
        BY <1>4, <1>5, <1>7
    <3> QED
      BY <1>1, <1>5, <1>11, <1>40, <3>1
  <2>2. 0 \in 0 .. k - 1
    <3>1. k \in 1 .. m + 1
      BY <1>40
    <3> HIDE DEF n
    <3> QED
      BY <3>1, <1>5
  <2> QED
    BY <1>20, <1>40, <2>1, <2>2
<1>50. CASE /\ w.first = Pos(n, d, 1) /\ m = n - 1 /\ k = n - 1
            /\ \A i \in 0 .. k - 1 : Change(w, i) = Change(d, i + 1)
            /\ \A i \in 0 .. m : Changed(d, i) < t
  <2> DEFINE f == d.first
  <2>1. f \in 0 .. n - 1
    BY <1>3 DEF Rings
  <2>2. /\ 0 \in 0 .. k - 1 /\ k \in 0 .. k /\ 1 \in 0 .. m /\ m \in 0 .. m
        /\ m = n - 1 /\ k = n - 1
    BY <1>1, <1>50
  <2>3. Changed(w, 0) = Changed(d, 1)
    BY <1>8, <1>50, <2>2
  <2>4. CASE o = 0
    <3>1. Fwd(n, Fwd(n, f, 1), n - 1) = Fwd(n, f, 0)
      <4> HIDE DEF n, f
      <4> QED
        BY <1>1, <2>1 DEF Fwd
    <3>2. w.old = Pos(n, w, k)
      BY <1>4, <1>6, <1>50, <2>4, <3>1 DEF Pos
    <3>3. ASSUME ChangesFit
          PROVE  Changed(w, 0) <= x
      <4>1. Changed(d, m) - Changed(d, 1) >= m - 1 /\ Changed(d, m) < t
            /\ Changed(d, 1) \in Int /\ Changed(d, m) \in Int
        BY <1>1, <1>3, <1>5, <1>50, <2>2 DEF Spread, Changed, Last, m
      <4>2. Delay < n
        BY <3>3 DEF ChangesFit
      <4>3. Changed(d, 1) <= x
        <5> HIDE DEF n
        <5> QED
          BY <1>1, <2>2, <4>1, <4>2
      <4> QED
        BY <2>3, <4>3
    <3> QED
      BY <2>2, <3>2, <3>3
  <2>5. CASE o # 0
    <3> DEFINE j == o - 1
    <3>1. j \in 0 .. k /\ Fwd(n, Fwd(n, f, 1), j) = Fwd(n, f, o) /\ 1 <= o
      <4> HIDE DEF n, f
      <4> QED
        BY <1>1, <1>9, <2>1, <2>2, <2>5 DEF Fwd
    <3>2. w.old = Pos(n, w, j)
      BY <1>4, <1>6, <1>50, <3>1 DEF Pos
    <3>3. Changed(w, 0) <= x
      <4>1. Changed(d, 1) <= Changed(d, o) /\ Changed(d, 1) \in Int /\ Changed(d, o) \in Int
        BY <1>4, <1>5, <2>2, <3>1
      <4> QED
        BY <1>1, <1>4, <2>3, <4>1
    <3> HIDE DEF j
    <3> QED
      BY <3>1, <3>2, <3>3
  <2> QED
    BY <2>4, <2>5
<1> QED
  BY <1>6, <1>30, <1>40, <1>50

(* After an event no change is due, and the next look-up begins there. *)
LEMMA EventAnswers ==
    ASSUME NEW w, NEW h, NEW t \in Int, Tells(w, h, t), NEW x \in Int,
           NEW o \in 0 .. Last(w), w.old = Pos(Changes, w, o)
    PROVE  /\ Discrete!TooOld(w, x) <=> x < Changed(w, 0)
           /\ ~Discrete!TooOld(w, x) =>
                 LET e == [w EXCEPT !.old = Discrete!Next2(w, x)]
                 IN  /\ Tells(e, h, t) /\ Answers(e, x)
                     /\ e.old = e.add \/ x < e.x[Discrete!After(e.old)]
<1> DEFINE n == Changes
           m == Last(w)
           N == Discrete!Next2(w, x)
           e == [w EXCEPT !.old = N]
<1>1. w \in Rings(n, Levels) /\ Spread(n, w)
  BY DEF Tells
<1>2. /\ m \in 0 .. n - 1 /\ w.add = Pos(n, w, m)
      /\ \A i \in 0 .. m : Changed(w, i) \in Int
      /\ \A i, j \in 0 .. m : i <= j => Changed(w, i) <= Changed(w, j)
      /\ \A i \in 0 .. m : i # m =>
            /\ i + 1 \in 0 .. m
            /\ Discrete!After(Pos(n, w, i)) = Pos(n, w, i + 1)
  BY <1>1, NextChange
<1>3. n \in Sizes /\ n \in Nat /\ Pos(n, w, 0) = w.first
      /\ \A i \in 0 .. n - 1 : Pos(n, w, i) \in 0 .. n - 1
  BY <1>1, ChangesConstants, PlacesAre
<1> HIDE DEF m
<1>4. 0 \in 0 .. m /\ m \in 0 .. m /\ 0 <= m /\ \A i \in 0 .. m : i \in 0 .. n - 1
  <2> HIDE DEF n
  <2> QED
    BY <1>2, <1>3
<1>5. w.x[w.add] = Changed(w, m) /\ w.x[w.first] = Changed(w, 0)
  BY <1>2, <1>3 DEF Changed, At
<1>6. Discrete!TooOld(w, x) <=> x < Changed(w, 0)
  <2>1. Changed(w, 0) <= Changed(w, m) /\ Changed(w, 0) \in Int /\ Changed(w, m) \in Int
    BY <1>2, <1>4
  <2> QED
    BY <1>5, <2>1 DEF Discrete!TooOld
<1>7. ASSUME ~Discrete!TooOld(w, x)
      PROVE  /\ Tells(e, h, t) /\ Answers(e, x)
             /\ e.old = e.add \/ x < e.x[Discrete!After(e.old)]
  <2>1. Changed(w, 0) <= x
    BY <1>2, <1>4, <1>6, <1>7
  <2>2. PICK q \in 0 .. m : /\ N = Pos(n, w, q)
                            /\ Changed(w, q) <= x
                            /\ q = m \/ x < Changed(w, q + 1)
    BY <1>1, <2>1, AnswerIs DEF Last, Changed, m
  <2> HIDE DEF N
  <2>3. N \in 0 .. n - 1
    BY <1>3, <1>4, <2>2
  <2>4. /\ Tells(e, h, t) /\ Last(e) = m
        /\ \A i : Changed(e, i) = Changed(w, i) /\ Pos(n, e, i) = Pos(n, w, i)
    BY <2>3, ToldWherever DEF m
  <2>5. e.old = N /\ e.add = w.add /\ e.x = w.x
    BY <1>1 DEF Rings
  <2> HIDE DEF e
  <2>6. q = m \/ x <= Changed(w, q + 1) + 1
    BY <1>2, <2>2
  <2>7. Answers(e, x)
    BY <2>2, <2>4, <2>5, <2>6 DEF Answers
  <2>10. SUFFICES e.old = e.add \/ x < e.x[Discrete!After(e.old)]
    BY <2>4, <2>7
  <2>8. CASE q = m
    BY <1>2, <2>2, <2>4, <2>5, <2>8
  <2>9. CASE q # m
    <3>1. Discrete!After(e.old) = Pos(n, w, q + 1)
      BY <1>2, <2>2, <2>5, <2>9
    <3> QED
      BY <2>2, <2>4, <2>5, <2>9, <3>1 DEF Changed, At
  <2> QED
    BY <2>8, <2>9
<1> QED
  BY <1>6, <1>7

(* The invariant of a discrete delay. *)
LEMMA ChangesStart ==
    Discrete!Init => ChangeInv
<1> SUFFICES ASSUME Discrete!Init PROVE ChangeInv
  OBVIOUS
<1>1. PICK v \in Levels : del = Discrete!NewBuffer(v) /\ expr = v
  BY DEF Discrete!Init
<1>2. 0 \in Discrete!Instants /\ 0 \in 0 .. EventHorizon /\ 0 \in Discrete!Positions
  BY ChangesConstants, ChangesSteps DEF Discrete!Instants
<1>3. Discrete!TypeOK
  BY <1>1, <1>2 DEF Discrete!Init, Discrete!TypeOK, Discrete!NewBuffer
<1> QED
  BY <1>3 DEF Discrete!Init, ChangeInv

(* An event tells of its change, the first one as well as a later one.     *)
LEMMA EventTells ==
    ASSUME ChangeInv, ~failed, NEW v \in Levels
    PROVE  LET w == Discrete!Write(Discrete!Ready(now, v), now, v)
               g == {s \in hist : s[1] < now}
                      \cup {<<IF allocated THEN now ELSE now - Delay - Past, v>>}
           IN  /\ Tells(w, g, now) /\ g \in SUBSET (Discrete!Instants \X Levels)
               /\ \E o \in 0 .. Last(w) : w.old = Pos(Changes, w, o)
               /\ ChangesFit => Changed(w, 0) <= now - Delay
<1> DEFINE w == Discrete!Write(Discrete!Ready(now, v), now, v)
           b == IF allocated THEN now ELSE now - Delay - Past
           g == {s \in hist : s[1] < now} \cup {<<b, v>>}
<1>1. /\ hist \in SUBSET (Discrete!Instants \X Levels) /\ now \in 0 .. EventHorizon
      /\ allocated \in BOOLEAN
      /\ del \in Rings(Changes, Levels)
      /\ \A p \in 0 .. Changes - 1 : del.x[p] \in Discrete!Instants
  BY ChangeTypes DEF ChangeInv, Discrete!TypeOK
<1>2. g \in SUBSET (Discrete!Instants \X Levels)
  <2>1. b \in Discrete!Instants
    BY <1>1, ChangesConstants DEF Discrete!Instants
  <2> HIDE DEF b
  <2> QED
    BY <1>1, <2>1
<1>3. CASE allocated
  <2>1. Tells(del, hist, now) /\ Answers(del, now - Delay)
    BY <1>3 DEF ChangeInv
  <2>2. Discrete!Ready(now, v) = del /\ b = now
    BY <1>3 DEF Discrete!Ready
  <2> QED
    BY <1>1, <1>2, <2>1, <2>2, LaterEvent
<1>4. CASE ~allocated
  <2>1. hist = {}
    BY <1>4 DEF ChangeInv
  <2>2. g = {<<now - Delay - Past, v>>}
    BY <1>4, <2>1
  <2>3. /\ Tells(w, {<<now - Delay - Past, v>>}, now)
        /\ w.old = Pos(Changes, w, 0)
        /\ Changed(w, 0) <= now - Delay
    BY <1>1, <1>4, <2>1, FirstEvent
  <2> HIDE DEF w, g
  <2>4. 0 \in 0 .. Last(w)
    <3>1. Last(w) \in 0 .. Changes - 1
      BY <2>3, NextChange DEF Tells
    <3> QED
      BY <3>1
  <2>5. /\ Tells(w, g, now) /\ g \in SUBSET (Discrete!Instants \X Levels)
        /\ \E o \in 0 .. Last(w) : w.old = Pos(Changes, w, o)
        /\ ChangesFit => Changed(w, 0) <= now - Delay
    BY <1>2, <2>2, <2>3, <2>4
  <2> QED
    BY <2>5 DEF w, g
<1> QED
  BY <1>3, <1>4

(* An event keeps the invariant, and leaves no change due.                 *)
LEMMA EventsKeep ==
    ASSUME ChangeInv, NEW v \in Levels, Discrete!Event(v)
    PROVE  /\ ChangeInv'
           /\ failed' \/ Discrete!NoneDue(del', now')
           /\ ChangesFit => ~failed'
<1> DEFINE w == Discrete!Write(Discrete!Ready(now, v), now, v)
           g == {s \in hist : s[1] < now}
                  \cup {<<IF allocated THEN now ELSE now - Delay - Past, v>>}
           x == now - Delay
           e == [w EXCEPT !.old = Discrete!Next2(w, x)]
<1>1. /\ ~failed /\ allocated' = TRUE /\ expr' = v /\ hist' = g /\ now' = now
      /\ failed' = Discrete!TooOld(w, x)
      /\ del' = IF Discrete!TooOld(w, x) THEN w ELSE e
  BY DEF Discrete!Event
<1>2. /\ Tells(w, g, now) /\ g \in SUBSET (Discrete!Instants \X Levels)
      /\ \E o \in 0 .. Last(w) : w.old = Pos(Changes, w, o)
      /\ ChangesFit => Changed(w, 0) <= x
  BY <1>1, EventTells
<1>3. now \in 0 .. EventHorizon /\ now \in Int /\ x \in Int
  BY ChangesConstants DEF ChangeInv, Discrete!TypeOK
<1> HIDE DEF w, g
<1>4. /\ Discrete!TooOld(w, x) <=> x < Changed(w, 0)
      /\ ~Discrete!TooOld(w, x) =>
            /\ Tells(e, g, now) /\ Answers(e, x)
            /\ e.old = e.add \/ x < e.x[Discrete!After(e.old)]
  BY <1>2, <1>3, EventAnswers
<1>5. failed' \in BOOLEAN
  BY <1>1 DEF Discrete!TooOld
<1> HIDE DEF e
<1>6. /\ Tells(del', hist', now')
      /\ ~failed' => /\ Answers(del', x)
                     /\ del'.old = del'.add \/ x < del'.x[Discrete!After(del'.old)]
  <2>1. CASE Discrete!TooOld(w, x)
    BY <1>1, <1>2, <2>1
  <2>2. CASE ~Discrete!TooOld(w, x)
    BY <1>1, <1>4, <2>2
  <2> QED
    BY <2>1, <2>2
<1>7. Discrete!TypeOK'
  <2>1. del' \in [x : [Discrete!Positions -> Discrete!Instants],
                  y : [Discrete!Positions -> Levels],
                  first : Discrete!Positions, add : Discrete!Positions,
                  old : Discrete!Positions]
    BY <1>6, ChangeTypes DEF Tells
  <2> QED
    BY <1>1, <1>2, <1>3, <1>5, <2>1 DEF Discrete!TypeOK
<1>8. ChangeInv'
  BY <1>1, <1>6, <1>7 DEF ChangeInv
<1>9. failed' \/ Discrete!NoneDue(del', now')
  BY <1>1, <1>6 DEF Discrete!NoneDue
<1>10. ChangesFit => ~failed'
  <2>1. Changed(w, 0) \in Int
    <3>1. Last(w) \in 0 .. Changes - 1 /\ \A i \in 0 .. Last(w) : Changed(w, i) \in Int
      BY <1>2, NextChange DEF Tells
    <3>2. 0 \in 0 .. Last(w)
      BY <3>1
    <3> QED
      BY <3>1, <3>2
  <2> QED
    BY <1>1, <1>2, <1>3, <1>4, <2>1
<1> QED
  BY <1>8, <1>9, <1>10

(* The change after `old' was not due while the solver went on.            *)
LEMMA TimesKeep ==
    ASSUME ChangeInv, NEW t \in 1 .. EventHorizon, Discrete!GoOn(t)
    PROVE  ChangeInv' /\ ~failed'
<1>1. /\ allocated /\ ~failed /\ t > now /\ now' = t
      /\ \A s \in now .. t - 1 : Discrete!NotDue(del, s)
      /\ UNCHANGED <<del, allocated, expr, hist, failed>>
  BY DEF Discrete!GoOn
<1>2. /\ now \in 0 .. EventHorizon /\ t \in 0 .. EventHorizon /\ now \in Int /\ t \in Int
      /\ Delay \in Nat /\ EventHorizon \in Nat /\ t - 1 \in now .. t - 1
  BY <1>1, ChangesConstants DEF ChangeInv, Discrete!TypeOK
<1>3. Tells(del, hist, now) /\ Answers(del, now - Delay)
  BY <1>1 DEF ChangeInv
<1>4. /\ Last(del) \in 0 .. Changes - 1
      /\ \A i \in 0 .. Last(del) : Changed(del, i) \in Int
      /\ \A i \in 0 .. Last(del) : i # Last(del) =>
            /\ i + 1 \in 0 .. Last(del)
            /\ Pos(Changes, del, i) # del.add
            /\ Discrete!After(Pos(Changes, del, i)) = Pos(Changes, del, i + 1)
  BY <1>3, NextChange DEF Tells
<1>5. 0 \in 0 .. Last(del) /\ Last(del) \in 0 .. Last(del)
  BY <1>4
<1>6. Tells(del, hist, t)
  BY <1>1, <1>2, <1>3, <1>4, <1>5 DEF Tells
<1>7. Answers(del, t - Delay)
  <2>1. PICK o \in 0 .. Last(del) : /\ del.old = Pos(Changes, del, o)
                                    /\ Changed(del, o) <= now - Delay
                                    /\ o = Last(del) \/ now - Delay <= Changed(del, o + 1) + 1
    BY <1>3 DEF Answers
  <2>2. Changed(del, o) <= t - Delay
    BY <1>1, <1>2, <1>4, <2>1
  <2>3. ASSUME o # Last(del)
        PROVE  t - Delay <= Changed(del, o + 1) + 1
    <3>1. /\ del.old # del.add /\ Discrete!After(del.old) = Pos(Changes, del, o + 1)
          /\ Changed(del, o + 1) \in Int
      BY <1>4, <2>1, <2>3
    <3>2. (t - 1) - Delay <= Changed(del, o + 1)
      BY <1>1, <1>2, <3>1 DEF Discrete!NotDue, Changed, At
    <3> QED
      BY <1>2, <3>1, <3>2
  <2> QED
    BY <2>1, <2>2, <2>3 DEF Answers
<1>8. Discrete!TypeOK'
  BY <1>1, <1>2 DEF ChangeInv, Discrete!TypeOK
<1> QED
  BY <1>1, <1>6, <1>7, <1>8 DEF ChangeInv

(* Every step keeps the invariant.                                         *)
LEMMA ChangesStay ==
    ChangeInv /\ Discrete!Next => ChangeInv' /\ (ChangesFit => ~failed')
<1> SUFFICES ASSUME ChangeInv, Discrete!Next
             PROVE  ChangeInv' /\ (ChangesFit => ~failed')
  OBVIOUS
<1>1. ASSUME NEW v \in Levels, Discrete!Event(v)
      PROVE  ChangeInv' /\ (ChangesFit => ~failed')
  BY <1>1, EventsKeep
<1>2. ASSUME NEW t \in 1 .. EventHorizon, Discrete!GoOn(t)
      PROVE  ChangeInv' /\ (ChangesFit => ~failed')
  BY <1>2, TimesKeep
<1> QED
  BY <1>1, <1>2 DEF Discrete!Next

(* What is answered is the change the history has as the latest one, or    *)
(* as the latest one before now.                                           *)
LEMMA ChangesSay ==
    ChangeInv => Discrete!TypeOK /\ Discrete!AnswersDelayed
<1> DEFINE late == IF Discrete!NoneDue(del, now) THEN 0 ELSE 1
           x == now - Delay - late
           past == {s \in hist : s[1] <= x}
           m == Last(del)
<1> DEFINE y == IF Discrete!NoneDue(del, now) THEN now - Delay ELSE now - Delay - 1
<1> SUFFICES ASSUME ChangeInv, allocated, ~failed, Discrete!NotDue(del, now)
             PROVE  del.y[del.old] = Discrete!ValueAt(y)
  BY DEF ChangeInv, Discrete!AnswersDelayed
<1>1. Tells(del, hist, now) /\ Answers(del, now - Delay)
  BY DEF ChangeInv
<1>2. /\ x \in Int /\ now - Delay \in Int /\ late \in 0 .. 1 /\ x = now - Delay - late
      /\ \A s \in hist : s[1] \in Int
  BY ChangesConstants DEF ChangeInv, Discrete!TypeOK, Discrete!Instants
<1>3. /\ m \in 0 .. Changes - 1
      /\ \A i \in 0 .. m : Changed(del, i) \in Int
      /\ \A i, j \in 0 .. m : i <= j => Changed(del, i) <= Changed(del, j)
      /\ \A i \in 0 .. m : i # m =>
            /\ i + 1 \in 0 .. m
            /\ Pos(Changes, del, i) # del.add
            /\ Discrete!After(Pos(Changes, del, i)) = Pos(Changes, del, i + 1)
  BY <1>1, NextChange DEF Tells
<1>14. PICK o \in 0 .. m : del.old = Pos(Changes, del, o) /\ Changed(del, o) <= now - Delay
  BY <1>1 DEF Answers
<1>15. o # m => /\ o + 1 \in 0 .. m /\ now - Delay <= Changed(del, o + 1)
                /\ late = 0 <=> now - Delay < Changed(del, o + 1)
                /\ Changed(del, o) < Changed(del, o + 1)
                /\ Changed(del, o) \in Int /\ Changed(del, o + 1) \in Int
  <2>1. SUFFICES ASSUME o # m
                 PROVE  /\ o + 1 \in 0 .. m /\ now - Delay <= Changed(del, o + 1)
                        /\ late = 0 <=> now - Delay < Changed(del, o + 1)
                        /\ Changed(del, o) < Changed(del, o + 1)
                        /\ Changed(del, o) \in Int /\ Changed(del, o + 1) \in Int
    OBVIOUS
  <2>2. /\ del.old # del.add /\ Discrete!After(del.old) = Pos(Changes, del, o + 1)
        /\ o + 1 \in 0 .. m
    BY <1>3, <1>14, <2>1
  <2>3. del.x[Discrete!After(del.old)] = Changed(del, o + 1)
    BY <2>2 DEF Changed, At
  <2>4. Discrete!NoneDue(del, now) <=> now - Delay < Changed(del, o + 1)
    BY <2>2, <2>3 DEF Discrete!NoneDue
  <2>5. now - Delay <= Changed(del, o + 1)
    BY <2>2, <2>3 DEF Discrete!NotDue
  <2>6. Changed(del, o) < Changed(del, o + 1)
    <3>1. Changed(del, o + 1) - Changed(del, o) >= (o + 1) - o
      BY <1>1, <1>14, <2>2 DEF Tells, Spread, Last, Changed
    <3>2. Changed(del, o) \in Int /\ Changed(del, o + 1) \in Int
      BY <1>3, <1>14, <2>2
    <3> HIDE DEF m
    <3> QED
      BY <3>1, <3>2
  <2> QED
    BY <1>3, <2>2, <2>4, <2>5, <2>6
<1>16. o = m => late = 0
  <2>1. SUFFICES ASSUME o = m PROVE late = 0
    OBVIOUS
  <2>2. del.old = del.add
    BY <1>1, <1>14, <2>1, NextChange DEF Tells
  <2> QED
    BY <2>2 DEF Discrete!NoneDue
<1>17. x = y
  BY <1>2
<1> HIDE DEF late, y
<1>4. del.old = Pos(Changes, del, o) /\ Changed(del, o) <= x
  BY <1>2, <1>3, <1>14, <1>15, <1>16
<1>5. o = m \/ x < Changed(del, o + 1)
  BY <1>2, <1>3, <1>14, <1>15
<1>6. Change(del, o) \in past /\ Change(del, o)[1] = Changed(del, o)
  <2>1. Change(del, o) \in hist
    BY <1>1 DEF Tells
  <2>2. Change(del, o)[1] = Changed(del, o)
    BY DEF Change, Changed, Of, At
  <2> QED
    BY <1>4, <2>1, <2>2
<1>7. \E s \in past : \A r \in past : r[1] <= s[1]
  <2> DEFINE S == {s[1] : s \in past}
  <2>1. S # {} /\ \A z \in S : z \in Int /\ z <= x
    BY <1>2, <1>6
  <2>2. Greatest(S) \in S /\ \A z \in S : Greatest(S) >= z
    BY <1>2, <2>1, GreatestIs
  <2>3. PICK s \in past : s[1] = Greatest(S)
    BY <2>2
  <2>4. \A r \in past : r[1] <= s[1]
    BY <1>2, <2>2, <2>3
  <2> QED
    BY <2>4
<1> DEFINE c == CHOOSE s \in past : \A r \in past : r[1] <= s[1]
<1>8. c \in past /\ \A r \in past : r[1] <= c[1]
  BY <1>7
<1> HIDE DEF c
<1>9. c \in hist /\ c[1] <= x /\ c[1] \in Int /\ Changed(del, o) <= c[1]
  BY <1>2, <1>6, <1>8
<1>10. Changed(del, 0) <= c[1]
  <2>1. 0 \in 0 .. m /\ 0 <= o
    BY <1>3
  <2>2. Changed(del, 0) <= Changed(del, o) /\ Changed(del, 0) \in Int /\ Changed(del, o) \in Int
    BY <1>3, <2>1
  <2> QED
    BY <1>9, <2>2
<1>11. PICK i \in 0 .. m : /\ Changed(del, i) <= c[1]
                           /\ i = m \/ c[1] < Changed(del, i + 1)
                           /\ Change(del, i)[2] = c[2]
  BY <1>1, <1>9, <1>10 DEF Tells
<1>12. i = o
  <2>1. ASSUME i > o
        PROVE  FALSE
    <3>1. o # m /\ o + 1 \in 0 .. m /\ o + 1 <= i
      BY <1>3, <2>1
    <3>2. /\ Changed(del, o + 1) <= Changed(del, i)
          /\ Changed(del, o + 1) \in Int /\ Changed(del, i) \in Int
      BY <1>3, <3>1
    <3> QED
      BY <1>2, <1>5, <1>9, <1>11, <3>1, <3>2
  <2>2. ASSUME i < o
        PROVE  FALSE
    <3>1. i # m /\ i + 1 \in 0 .. m /\ i + 1 <= o
      BY <1>3, <2>2
    <3>2. /\ Changed(del, i + 1) <= Changed(del, o)
          /\ Changed(del, i + 1) \in Int /\ Changed(del, o) \in Int
      BY <1>3, <3>1
    <3> QED
      BY <1>2, <1>9, <1>11, <3>1, <3>2
  <2> QED
    BY <1>3, <2>1, <2>2
<1>13. del.y[del.old] = c[2]
  BY <1>4, <1>11, <1>12 DEF Change, Of
<1>18. Discrete!ValueAt(x) = c[2]
  BY DEF Discrete!ValueAt, c
<1> QED
  BY <1>13, <1>17, <1>18

----------------------------------------------------------------------------
(* Both kinds of delay, from the beginning.                                *)

DelaysInv ==
    /\ kind = "continuous" => RingInv
    /\ kind = "discrete" => ChangeInv

(* The invariant holds at first ...                                        *)
LEMMA DelaysStart ==
    Init => DelaysInv
<1> SUFFICES ASSUME Init PROVE DelaysInv
  OBVIOUS
<1>1. kind = "continuous" => RingInv
  BY RingStarts DEF Init
<1>2. kind = "discrete" => ChangeInv
  BY ChangesStart DEF Init
<1> QED
  BY <1>1, <1>2 DEF DelaysInv

(* ... and after every step.                                               *)
LEMMA DelaysStay ==
    DelaysInv /\ [Next]_vars => DelaysInv'
<1> SUFFICES ASSUME DelaysInv, [Next]_vars PROVE DelaysInv'
  OBVIOUS
<1>1. CASE kind = "continuous" /\ Continuous!Next /\ UNCHANGED kind
  <2>1. RingInv'
    BY <1>1, RingStays DEF DelaysInv
  <2>2. kind' = "continuous"
    BY <1>1
  <2> QED
    BY <2>1, <2>2 DEF DelaysInv
<1>2. CASE kind = "discrete" /\ Discrete!Next /\ UNCHANGED kind
  <2>1. ChangeInv'
    BY <1>2, ChangesStay DEF DelaysInv
  <2>2. kind' = "discrete"
    BY <1>2
  <2> QED
    BY <2>1, <2>2 DEF DelaysInv
<1>3. CASE kind \in {"samplers", "table"} /\ UNCHANGED kind
  BY <1>3 DEF DelaysInv
<1>4. CASE UNCHANGED vars
  <2>1. UNCHANGED <<kind, now, delays>>
    BY <1>4 DEF vars
  <2>2. RingInv => RingInv'
    BY <2>1 DEF delays, RingInv, Continuous!TypeOK, Continuous!NotBegun
  <2>3. ChangeInv => ChangeInv'
    BY <2>1 DEF delays, ChangeInv, Discrete!TypeOK
  <2> QED
    BY <2>1, <2>2, <2>3 DEF DelaysInv
<1> QED
  BY <1>1, <1>2, <1>3, <1>4 DEF Next

(* The rings of the delays are well formed whatever is accepted, rejected, *)
(* decimated or forgotten: the entries of a continuous delay are in the    *)
(* order of their instants, each is one of the signal's, and decimation    *)
(* leaves gaps in it only where it may (delayWrite2 and delayDWrite2, for  *)
(* a Buffersize of any size).                                              *)
THEOREM HistoryIsHeld == Spec => []HoldsHistory
<1>1. DelaysInv => HoldsHistory
  <2> SUFFICES ASSUME DelaysInv PROVE HoldsHistory
    OBVIOUS
  <2>1. kind = "continuous" =>
          Continuous!TypeOK /\ Continuous!Ordered /\ Continuous!HoldsHistory
    BY RingSays DEF DelaysInv
  <2>2. kind = "discrete" => Discrete!TypeOK
    BY ChangesSay DEF DelaysInv
  <2> QED
    BY <2>1, <2>2 DEF HoldsHistory
<1> QED
  BY <1>1, DelaysStart, DelaysStay, PTL DEF Spec

(* What a discrete delay answers is the value its signal had a Delay ago   *)
(* (delayDCFunction2), whatever changes came between, for a ring of any    *)
(* size and any Delay: as soon as an event has looked at what is due, and  *)
(* unless the ring was too small.  At the very instant at which a change   *)
(* is due its crossing function is still positive, and the value before it *)
(* is answered unless there is an event.                                   *)
THEOREM DelayedIsAnswered == Spec => []AnswersDelayed
<1>1. DelaysInv => AnswersDelayed
  BY ChangesSay DEF DelaysInv, AnswersDelayed
<1> QED
  BY <1>1, DelaysStart, DelaysStay, PTL DEF Spec

(* An event leaves no change due (delayDnext2): the crossing functions     *)
(* find none at once again, and the iteration of events ends.              *)
THEOREM NothingStaysDue == Spec => NothingLeftDue
<1>1. DelaysInv /\ [Next]_vars => [kind = "discrete" => Discrete!DueAnswered]_vars
  <2> SUFFICES ASSUME DelaysInv, kind = "discrete"
               PROVE  Discrete!DueAnswered
    OBVIOUS
  <2>1. ChangeInv
    BY DEF DelaysInv
  <2>2. ASSUME NEW v \in Levels, Discrete!Event(v)
        PROVE  failed' \/ Discrete!NoneDue(del', now')
    BY <2>1, <2>2, EventsKeep
  <2> QED
    BY <2>2 DEF Discrete!DueAnswered
<1> QED
  BY <1>1, DelaysStart, DelaysStay, PTL DEF Spec, NothingLeftDue

SearchesInv ==
    /\ kind = "continuous" => SearchInv
    /\ kind = "discrete" => ~failed

(* Every read of a delay is between two neighbouring entries, and none     *)
(* reaches beyond the oldest one, if the rings are as large as the program *)
(* relies on: that of a continuous delay has more entries than a step goes *)
(* back over and a decimation leaves a gap of, and that of a discrete one  *)
(* more than there are changes in a Delay.  With gaps of three entries or  *)
(* more all runs begin at the same time (else a search that starts from a  *)
(* place which decimation has left could end in what an earlier run wrote).*)
THEOREM ReadsAreBracketed ==
    ASSUME StepsFit, RunsBeginAlike, ChangesFit
    PROVE  Spec => []ReadBrackets
<1>1. Init => SearchesInv
  <2> SUFFICES ASSUME Init PROVE SearchesInv
    OBVIOUS
  <2>1. kind = "continuous" => SearchInv
    BY SearchStarts DEF Init
  <2>2. kind = "discrete" => ~failed
    BY DEF Init, Discrete!Init
  <2> QED
    BY <2>1, <2>2 DEF SearchesInv
<1>2. DelaysInv /\ SearchesInv /\ [Next]_vars => SearchesInv'
  <2> SUFFICES ASSUME DelaysInv, SearchesInv, [Next]_vars PROVE SearchesInv'
    OBVIOUS
  <2>1. CASE kind = "continuous" /\ Continuous!Next /\ UNCHANGED kind
    <3>1. SearchInv'
      BY <2>1, SearchStays DEF DelaysInv, SearchesInv
    <3>2. kind' = "continuous"
      BY <2>1
    <3> QED
      BY <3>1, <3>2 DEF SearchesInv
  <2>2. CASE kind = "discrete" /\ Discrete!Next /\ UNCHANGED kind
    <3>1. ~failed'
      BY <2>2, ChangesStay DEF DelaysInv
    <3>2. kind' = "discrete"
      BY <2>2
    <3> QED
      BY <3>1, <3>2 DEF SearchesInv
  <2>3. CASE kind \in {"samplers", "table"} /\ UNCHANGED kind
    BY <2>3 DEF SearchesInv
  <2>4. CASE UNCHANGED vars
    <3>1. UNCHANGED <<kind, delays>>
      BY <2>4 DEF vars
    <3>2. SearchInv => SearchInv'
      BY <3>1 DEF delays, SearchInv, Continuous!ReadBrackets, Continuous!NotBegun
    <3> QED
      BY <3>1, <3>2 DEF SearchesInv, delays
  <2> QED
    BY <2>1, <2>2, <2>3, <2>4 DEF Next
<1>3. DelaysInv /\ SearchesInv => ReadBrackets
  <2> SUFFICES ASSUME DelaysInv, SearchesInv PROVE ReadBrackets
    OBVIOUS
  <2>1. kind = "continuous" => Continuous!ReadBrackets /\ Continuous!NeverTooOld
    BY RingSays DEF DelaysInv, SearchesInv, SearchInv
  <2>2. kind = "discrete" => Discrete!NeverTooOld
    BY DEF SearchesInv, Discrete!NeverTooOld
  <2> QED
    BY <2>1, <2>2 DEF ReadBrackets
<1> QED
  BY <1>1, <1>2, <1>3, DelaysStart, DelaysStay, PTL DEF Spec
----------------------------------------------------------------------------
(* Samplers.  The instants of a clock c at which it is to be true are a    *)
(* period apart, from its first one on.                                    *)

Period(c) == c.maxVal * c.interval
FirstOf(c) == c.start + Sampled!Offset(c) * c.interval
OnPhase(c, at) == (at - FirstOf(c)) % Period(c) = 0

(* Products are monotone, and factors cancel.                              *)
LEMMA Products ==
    ASSUME NEW a \in Int, NEW b \in Int, NEW k \in Nat \ {0}
    PROVE  /\ a <= b => a * k <= b * k
           /\ a < b => a * k + k <= b * k
           /\ a * k <= b * k => a <= b
           /\ a * k = b * k => a = b
<1>1. ASSUME NEW x \in Int, NEW y \in Int, x <= y PROVE x * k <= y * k
  BY <1>1
<1>2. a < b => (a + 1) * k <= b * k
  BY <1>1
<1>3. (a + 1) * k = a * k + k
  OBVIOUS
<1>4. a * k <= b * k => a <= b
  OBVIOUS
<1>5. b * k <= a * k => b <= a
  OBVIOUS
<1> HIDE <1>1
<1>6. a * k = b * k => a = b
  BY <1>4, <1>5
<1> QED
  BY <1>1, <1>2, <1>3, <1>4, <1>6

(* Division with remainder.                                                *)
LEMMA Division ==
    ASSUME NEW a \in Int, NEW k \in Nat \ {0}
    PROVE  /\ a \div k \in Int
           /\ (a \div k) * k <= a /\ a < (a \div k) * k + k
           /\ a % k = 0 => a = (a \div k) * k
<1>1. a \div k \in Int /\ (a \div k) * k <= a /\ a < (a \div k) * k + k
  OBVIOUS
<1>2. a % k = 0 => a = (a \div k) * k
  OBVIOUS
<1> QED
  BY <1>1, <1>2

(* A clock is what TimeEventsAssumption says.                              *)
LEMMA ClockIs ==
    ASSUME NEW c \in Clocks
    PROVE  /\ c.start \in Int /\ c.phase \in Int
           /\ c.interval \in Nat \ {0} /\ c.interval > Accuracy + SampleAccuracy
           /\ c.maxVal \in Nat \ {0}
           /\ Period(c) \in Nat \ {0} /\ Period(c) >= c.interval
           /\ Sampled!Offset(c) \in Int /\ FirstOf(c) \in Int
           /\ SampleHorizon + SampleAccuracy + Period(c) + Accuracy < Never
           /\ c.start + Period(c) + Accuracy < Never
           /\ SampleHorizon + SampleAccuracy - c.start + 2 < Never
           /\ Accuracy \in Nat /\ SampleAccuracy \in Nat /\ SampleHorizon \in Nat /\ Never \in Nat
<1>1. /\ c.start \in Int /\ c.phase \in Int
      /\ c.interval \in Nat /\ c.interval > Accuracy + SampleAccuracy
      /\ c.maxVal \in Nat \ {0}
      /\ SampleHorizon + SampleAccuracy + Period(c) + Accuracy < Never
      /\ c.start + Period(c) + Accuracy < Never
      /\ SampleHorizon + SampleAccuracy - c.start + 2 < Never
      /\ Accuracy \in Nat /\ SampleAccuracy \in Nat /\ SampleHorizon \in Nat /\ Never \in Nat
  BY SamplersAssumption DEF Sampled!TimeEventsAssumption, Period
<1>2. c.interval \in Nat \ {0}
  BY <1>1
<1>3. 1 * c.interval <= c.maxVal * c.interval
  BY <1>1, <1>2, Products
<1>4. Period(c) \in Nat \ {0} /\ Period(c) >= c.interval
  BY <1>1, <1>2, <1>3 DEF Period
<1>5. Sampled!Offset(c) \in Int /\ FirstOf(c) \in Int
  BY <1>1, <1>2 DEF Sampled!Offset, FirstOf
<1> QED
  BY <1>1, <1>2, <1>4, <1>5

(* Instants of a clock are an interval apart.                              *)
LEMMA InstantIs ==
    ASSUME NEW c \in Clocks, NEW n \in Int, NEW m \in Int
    PROVE  /\ Sampled!Instant(c, n) \in Int
           /\ Sampled!Instant(c, n - 1) = Sampled!Instant(c, n) - c.interval
           /\ n <= m => Sampled!Instant(c, n) <= Sampled!Instant(c, m)
           /\ n < m => Sampled!Instant(c, n) <= Sampled!Instant(c, m - 1)
           /\ Sampled!Instant(c, n) < Sampled!Instant(c, m) => n < m
<1>1. c.start \in Int /\ c.interval \in Nat \ {0}
  BY ClockIs
<1>2. \A i \in Int : Sampled!Instant(c, i) = c.start + (i - 1) * c.interval
  BY DEF Sampled!Instant
<1>3. (n - 2) * c.interval = (n - 1) * c.interval - c.interval
  BY <1>1
<1>4. n <= m => (n - 1) * c.interval <= (m - 1) * c.interval
  BY <1>1, Products
<1>5. n < m => (n - 1) * c.interval <= (m - 2) * c.interval
  BY <1>1, Products
<1>6. m <= n => (m - 1) * c.interval <= (n - 1) * c.interval
  BY <1>1, Products
<1>7. (n - 1) * c.interval \in Int /\ (m - 1) * c.interval \in Int /\ (m - 2) * c.interval \in Int
      /\ (n - 2) * c.interval \in Int
  BY <1>1
<1>8. /\ Sampled!Instant(c, n) = c.start + (n - 1) * c.interval
      /\ Sampled!Instant(c, n - 1) = c.start + (n - 2) * c.interval
      /\ Sampled!Instant(c, m) = c.start + (m - 1) * c.interval
      /\ Sampled!Instant(c, m - 1) = c.start + (m - 2) * c.interval
  BY <1>2
<1> DEFINE a == (n - 1) * c.interval  b == (m - 1) * c.interval
           a2 == (n - 2) * c.interval b2 == (m - 2) * c.interval
<1> HIDE DEF a, b, a2, b2
<1> QED
  BY <1>1, <1>3, <1>4, <1>5, <1>6, <1>7, <1>8 DEF a, b, a2, b2

(* An instant on phase is a number of periods after the first one, and the *)
(* instant of a number.                                                    *)
LEMMA OnPhaseIs ==
    ASSUME NEW c \in Clocks, NEW at \in Int, OnPhase(c, at)
    PROVE  \E i \in Int :
             /\ at = FirstOf(c) + i * Period(c)
             /\ at = Sampled!Instant(c, Sampled!Offset(c) + i * c.maxVal + 1)
<1> DEFINE i == (at - FirstOf(c)) \div Period(c)
<1>1. Period(c) \in Nat \ {0} /\ FirstOf(c) \in Int /\ at - FirstOf(c) \in Int
  BY ClockIs
<1>2. i \in Int /\ at - FirstOf(c) = i * Period(c)
  BY <1>1, Division DEF OnPhase
<1> HIDE DEF i
<1>3. at = FirstOf(c) + i * Period(c)
  BY <1>1, <1>2
<1>4. /\ Sampled!Offset(c) \in Int /\ c.interval \in Int /\ c.maxVal \in Int /\ c.start \in Int
  BY ClockIs
<1>5. (Sampled!Offset(c) + i * c.maxVal) * c.interval = Sampled!Offset(c) * c.interval + i * Period(c)
  BY <1>2, <1>4 DEF Period
<1>6. Sampled!Instant(c, Sampled!Offset(c) + i * c.maxVal + 1)
        = c.start + (Sampled!Offset(c) + i * c.maxVal) * c.interval
  BY <1>2, <1>4 DEF Sampled!Instant
<1>7. FirstOf(c) + i * Period(c) = c.start + (Sampled!Offset(c) * c.interval + i * Period(c))
  BY <1>1, <1>2, <1>4 DEF FirstOf
<1> QED
  BY <1>2, <1>3, <1>5, <1>6, <1>7

(* What is passed, and what is registered, with n the next number.         *)
LEMMA NextIs ==
    ASSUME NEW c \in Clocks, NEW n \in Int
    PROVE  \E q \in Int :
             /\ Sampled!Passed(c, n) = q * c.maxVal + Sampled!Offset(c)
             /\ q * c.maxVal + Sampled!Offset(c) <= n - 2
             /\ n - 2 < (q + 1) * c.maxVal + Sampled!Offset(c)
             /\ Sampled!Next(c, n) = FirstOf(c) + (q + 1) * Period(c)
             /\ Sampled!Next(c, n) = Sampled!Instant(c, Sampled!Offset(c) + (q + 1) * c.maxVal + 1)
<1> DEFINE d == n - 2 - Sampled!Offset(c)
           q == d \div c.maxVal
<1>1. /\ Sampled!Offset(c) \in Int /\ c.interval \in Int /\ c.maxVal \in Nat \ {0} /\ c.start \in Int
  BY ClockIs
<1>2. d \in Int
  BY <1>1
<1>3. q \in Int /\ q * c.maxVal <= d /\ d < q * c.maxVal + c.maxVal
  <2> HIDE DEF d
  <2> QED
    BY <1>1, <1>2, Division
<1>4. Sampled!Passed(c, n) = q * c.maxVal + Sampled!Offset(c)
  BY DEF Sampled!Passed
<1> HIDE DEF q
<1>5. (q + 1) * c.maxVal = q * c.maxVal + c.maxVal /\ q * c.maxVal \in Int /\ (q + 1) * c.maxVal \in Int
  BY <1>1, <1>3
<1>6. q * c.maxVal + Sampled!Offset(c) <= n - 2 /\ n - 2 < (q + 1) * c.maxVal + Sampled!Offset(c)
  <2> DEFINE x == q * c.maxVal
             y == (q + 1) * c.maxVal
  <2> HIDE DEF x, y
  <2> QED
    BY <1>1, <1>3, <1>5 DEF d, x, y
<1>7. Sampled!Next(c, n) = c.start + (Sampled!Offset(c) + (q + 1) * c.maxVal) * c.interval
  <2>1. Sampled!Next(c, n) = c.start + (q * c.maxVal + Sampled!Offset(c) + c.maxVal) * c.interval
    BY <1>4 DEF Sampled!Next
  <2>2. q * c.maxVal + Sampled!Offset(c) + c.maxVal = Sampled!Offset(c) + (q + 1) * c.maxVal
    BY <1>1, <1>5
  <2> QED
    BY <2>1, <2>2
<1>8. (Sampled!Offset(c) + (q + 1) * c.maxVal) * c.interval = Sampled!Offset(c) * c.interval + (q + 1) * Period(c)
  BY <1>1, <1>3 DEF Period
<1>9. Sampled!Instant(c, Sampled!Offset(c) + (q + 1) * c.maxVal + 1)
        = c.start + (Sampled!Offset(c) + (q + 1) * c.maxVal) * c.interval
  BY <1>1, <1>5 DEF Sampled!Instant
<1>10. FirstOf(c) + (q + 1) * Period(c) = c.start + (Sampled!Offset(c) * c.interval + (q + 1) * Period(c))
  BY <1>1, <1>3, ClockIs DEF FirstOf
<1> QED
  BY <1>3, <1>4, <1>6, <1>7, <1>8, <1>9, <1>10

(* The instant that is registered is the next one on phase: it is not      *)
(* before the n-th, and at most a period after the one before it.          *)
LEMMA NextBrackets ==
    ASSUME NEW c \in Clocks, NEW n \in Int
    PROVE  /\ Sampled!Next(c, n) \in Int
           /\ OnPhase(c, Sampled!Next(c, n))
           /\ Sampled!Instant(c, n) <= Sampled!Next(c, n)
           /\ Sampled!Next(c, n) <= Sampled!Instant(c, n) - c.interval + Period(c)
<1>1. PICK q \in Int :
             /\ q * c.maxVal + Sampled!Offset(c) <= n - 2
             /\ n - 2 < (q + 1) * c.maxVal + Sampled!Offset(c)
             /\ Sampled!Next(c, n) = FirstOf(c) + (q + 1) * Period(c)
             /\ Sampled!Next(c, n) = Sampled!Instant(c, Sampled!Offset(c) + (q + 1) * c.maxVal + 1)
  BY NextIs
<1>2. /\ c.start \in Int /\ c.interval \in Nat \ {0} /\ c.maxVal \in Nat \ {0}
      /\ Period(c) \in Nat \ {0} /\ FirstOf(c) \in Int /\ Sampled!Offset(c) \in Int
  BY ClockIs
<1>3. Sampled!Next(c, n) \in Int /\ Sampled!Next(c, n) - FirstOf(c) = (q + 1) * Period(c)
  BY <1>1, <1>2
<1>4. OnPhase(c, Sampled!Next(c, n))
  <2>1. ((q + 1) * Period(c)) % Period(c) = 0
    BY <1>2
  <2> QED
    BY <2>1, <1>3 DEF OnPhase
<1> DEFINE m == Sampled!Offset(c) + (q + 1) * c.maxVal + 1
<1>5. m \in Int /\ n <= m
  <2>1. (q + 1) * c.maxVal \in Int
    BY <1>2
  <2> QED
    BY <2>1, <1>1, <1>2
<1>6. Sampled!Instant(c, n) <= Sampled!Instant(c, m)
  <2> HIDE DEF m
  <2> QED
    BY <1>5, InstantIs
<1>7. m - c.maxVal + 1 <= n
  <2>1. (q + 1) * c.maxVal = q * c.maxVal + c.maxVal /\ q * c.maxVal \in Int
    BY <1>2
  <2> QED
    BY <2>1, <1>1, <1>2
<1> HIDE DEF m
<1>8. Sampled!Instant(c, m) <= Sampled!Instant(c, n) - c.interval + Period(c)
  <2>1. (m - 1) * c.interval <= (n - 2 + c.maxVal) * c.interval
    BY <1>2, <1>5, <1>7, Products
  <2>2. (n - 2 + c.maxVal) * c.interval = (n - 1) * c.interval - c.interval + Period(c)
    <3>1. \A a, b, k \in Int : (a + b) * k = a * k + b * k
      OBVIOUS
    <3>2. (n - 2 + c.maxVal) * c.interval = (n - 2) * c.interval + Period(c)
      BY <3>1, <1>2 DEF Period
    <3>3. (n - 2) * c.interval = (n - 1) * c.interval - c.interval
      BY <1>2
    <3> QED
      BY <3>2, <3>3
  <2>3. (m - 1) * c.interval \in Int /\ (n - 1) * c.interval \in Int
    BY <1>2, <1>5
  <2> DEFINE x == (m - 1) * c.interval
             y == (n - 1) * c.interval
  <2>4. Sampled!Instant(c, m) = c.start + x /\ Sampled!Instant(c, n) = c.start + y
    BY DEF Sampled!Instant
  <2>5. x \in Int /\ y \in Int /\ x <= y - c.interval + Period(c)
    BY <2>1, <2>2, <2>3
  <2> HIDE DEF x, y
  <2> QED
    BY <2>4, <2>5, <1>2
<1> QED
  BY <1>1, <1>3, <1>4, <1>6, <1>8 DEF m

(* An instant on phase that is not before the n-th is not before the one   *)
(* that is registered, and one after that is an interval or more after it. *)
(* One before the n-th is not after the one before it.                     *)
LEMMA OnPhaseBrackets ==
    ASSUME NEW c \in Clocks, NEW n \in Int, NEW at \in Int, OnPhase(c, at)
    PROVE  /\ at >= Sampled!Instant(c, n) => at >= Sampled!Next(c, n)
           /\ at > Sampled!Next(c, n) => at >= Sampled!Next(c, n) + c.interval
           /\ at < Sampled!Instant(c, n) => at <= Sampled!Instant(c, n) - c.interval
<1>1. PICK q \in Int :
             /\ q * c.maxVal + Sampled!Offset(c) <= n - 2
             /\ n - 2 < (q + 1) * c.maxVal + Sampled!Offset(c)
             /\ Sampled!Next(c, n) = FirstOf(c) + (q + 1) * Period(c)
  BY NextIs
<1>2. PICK i \in Int :
             /\ at = FirstOf(c) + i * Period(c)
             /\ at = Sampled!Instant(c, Sampled!Offset(c) + i * c.maxVal + 1)
  BY OnPhaseIs
<1>3. /\ c.interval \in Nat \ {0} /\ c.maxVal \in Nat \ {0} /\ Period(c) >= c.interval
      /\ Period(c) \in Nat \ {0} /\ FirstOf(c) \in Int /\ Sampled!Offset(c) \in Int
  BY ClockIs
<1> DEFINE m == Sampled!Offset(c) + i * c.maxVal + 1
<1>4. m \in Int /\ i * c.maxVal \in Int
  BY <1>3
<1>5. /\ Sampled!Instant(c, n) \in Int
      /\ n > m => Sampled!Instant(c, m) <= Sampled!Instant(c, n - 1)
      /\ Sampled!Instant(c, m) < Sampled!Instant(c, n) => m < n
      /\ Sampled!Instant(c, n - 1) = Sampled!Instant(c, n) - c.interval
  <2> HIDE DEF m
  <2> QED
    BY <1>4, InstantIs
<1>6. at >= Sampled!Instant(c, n) => i >= q + 1
  <2> SUFFICES ASSUME at >= Sampled!Instant(c, n), i <= q PROVE FALSE
    BY <1>5
  <2>1. i * c.maxVal <= q * c.maxVal
    BY <1>3, Products
  <2>2. m < n
    BY <2>1, <1>1, <1>3, <1>4
  <2>3. at <= Sampled!Instant(c, n) - c.interval
    BY <2>2, <1>2, <1>5
  <2> QED
    BY <2>3, <1>3, <1>5
<1> HIDE DEF m
<1>7. i >= q + 1 => i * Period(c) >= (q + 1) * Period(c)
  BY <1>3, Products
<1>8. i > q + 1 => i * Period(c) >= (q + 1) * Period(c) + Period(c)
  BY <1>3, Products
<1>9. i <= q + 1 => i * Period(c) <= (q + 1) * Period(c)
  BY <1>3, Products
<1>10. at < Sampled!Instant(c, n) => at <= Sampled!Instant(c, n) - c.interval
  BY <1>2, <1>4, <1>5 DEF m
<1> DEFINE x == i * Period(c)
           y == (q + 1) * Period(c)
<1>11. x \in Int /\ y \in Int
  BY <1>3
<1>12. /\ Sampled!Next(c, n) = FirstOf(c) + y /\ at = FirstOf(c) + x
       /\ i >= q + 1 => x >= y
       /\ i > q + 1 => x >= y + Period(c)
       /\ i <= q + 1 => x <= y
  BY <1>1, <1>2, <1>7, <1>8, <1>9
<1> HIDE DEF x, y
<1>13. at >= Sampled!Instant(c, n) => at >= Sampled!Next(c, n)
  BY <1>3, <1>6, <1>11, <1>12
<1>14. at > Sampled!Next(c, n) => at >= Sampled!Next(c, n) + c.interval
  BY <1>3, <1>11, <1>12
<1> QED
  BY <1>10, <1>13, <1>14

(* The instant passed last is on phase when the sampler finds it so.       *)
LEMMA PassedIsOnPhase ==
    ASSUME NEW c \in Clocks, NEW n \in Int
    PROVE  /\ OnPhase(c, Sampled!Instant(c, n - 1)) <=> Sampled!Passed(c, n) = n - 2
           /\ Sampled!Passed(c, n) = n - 2 =>
                (Sampled!Instant(c, n - 1) >= FirstOf(c) <=> Sampled!Passed(c, n) >= Sampled!Offset(c))
<1>1. PICK q \in Int :
             /\ Sampled!Passed(c, n) = q * c.maxVal + Sampled!Offset(c)
             /\ q * c.maxVal + Sampled!Offset(c) <= n - 2
             /\ n - 2 < (q + 1) * c.maxVal + Sampled!Offset(c)
  BY NextIs
<1>2. /\ c.interval \in Nat \ {0} /\ c.maxVal \in Nat \ {0} /\ c.start \in Int
      /\ Period(c) \in Nat \ {0} /\ FirstOf(c) \in Int /\ Sampled!Offset(c) \in Int
  BY ClockIs
<1> DEFINE at == Sampled!Instant(c, n - 1)
<1>3. at = c.start + (n - 2) * c.interval /\ at \in Int
  BY <1>2 DEF Sampled!Instant
<1> HIDE DEF at
<1>4. ASSUME Sampled!Passed(c, n) = n - 2 PROVE OnPhase(c, at)
  <2>1. n - 2 = q * c.maxVal + Sampled!Offset(c)
    BY <1>1, <1>4
  <2>2. (q * c.maxVal + Sampled!Offset(c)) * c.interval = q * Period(c) + Sampled!Offset(c) * c.interval
    BY <1>2 DEF Period
  <2>3. at - FirstOf(c) = q * Period(c)
    BY <2>1, <2>2, <1>2, <1>3 DEF FirstOf
  <2>4. (q * Period(c)) % Period(c) = 0
    BY <1>2
  <2> QED
    BY <2>3, <2>4 DEF OnPhase
<1>5. ASSUME OnPhase(c, at) PROVE Sampled!Passed(c, n) = n - 2
  <2>1. PICK i \in Int : at = Sampled!Instant(c, Sampled!Offset(c) + i * c.maxVal + 1)
    BY <1>3, <1>5, OnPhaseIs
  <2> DEFINE m == Sampled!Offset(c) + i * c.maxVal
  <2>2. m \in Int
    BY <1>2
  <2>3. at = c.start + m * c.interval
    BY <2>1, <2>2, <1>2 DEF Sampled!Instant
  <2> HIDE DEF m
  <2>4. m * c.interval = (n - 2) * c.interval
    <3> DEFINE x == m * c.interval  y == (n - 2) * c.interval
    <3>1. x \in Int /\ y \in Int /\ c.start + x = c.start + y
      BY <2>2, <2>3, <1>2, <1>3
    <3> HIDE DEF x, y
    <3>2. x = y
      BY <3>1, <1>2
    <3> QED
      BY <3>2 DEF x, y
  <2>5. m = n - 2
    BY <2>2, <2>4, <1>2, Products
  <2>6. Sampled!Offset(c) + i * c.maxVal = n - 2 /\ i * c.maxVal \in Int
    BY <2>5, <1>2 DEF m
  <2>7. q * c.maxVal <= i * c.maxVal /\ i * c.maxVal < (q + 1) * c.maxVal
    <3> DEFINE x == q * c.maxVal  y == (q + 1) * c.maxVal  z == i * c.maxVal
    <3>1. x \in Int /\ y \in Int /\ z \in Int
      BY <1>2
    <3>2. x + Sampled!Offset(c) <= n - 2 /\ n - 2 < y + Sampled!Offset(c) /\ Sampled!Offset(c) + z = n - 2
      BY <2>6, <1>1
    <3> HIDE DEF x, y, z
    <3>3. x <= z /\ z < y
      BY <3>1, <3>2, <1>2
    <3> QED
      BY <3>3 DEF x, y, z
  <2>8. q <= i /\ i < q + 1
    <3>1. q <= i
      BY <2>7, <1>2, Products
    <3>2. ASSUME q + 1 <= i PROVE FALSE
      <4>1. (q + 1) * c.maxVal <= i * c.maxVal
        BY <3>2, <1>2, Products
      <4>2. (q + 1) * c.maxVal \in Int /\ i * c.maxVal \in Int
        BY <1>2
      <4> QED
        BY <4>1, <4>2, <2>7
    <3> QED
      BY <3>1, <3>2
  <2> QED
    BY <2>6, <2>8, <1>1, <1>2
<1>6. ASSUME Sampled!Passed(c, n) = n - 2
      PROVE  at >= FirstOf(c) <=> n - 2 >= Sampled!Offset(c)
  <2>1. /\ (n - 2) * c.interval <= Sampled!Offset(c) * c.interval => n - 2 <= Sampled!Offset(c)
        /\ n - 2 <= Sampled!Offset(c) => (n - 2) * c.interval <= Sampled!Offset(c) * c.interval
        /\ Sampled!Offset(c) * c.interval <= (n - 2) * c.interval => Sampled!Offset(c) <= n - 2
        /\ Sampled!Offset(c) <= n - 2 => Sampled!Offset(c) * c.interval <= (n - 2) * c.interval
    BY <1>2, Products
  <2>2. FirstOf(c) = c.start + Sampled!Offset(c) * c.interval
    BY DEF FirstOf
  <2> DEFINE x == (n - 2) * c.interval  y == Sampled!Offset(c) * c.interval
  <2>3. x \in Int /\ y \in Int
    BY <1>2
  <2>4. at = c.start + x /\ FirstOf(c) = c.start + y /\ (y <= x <=> Sampled!Offset(c) <= n - 2)
    BY <2>1, <2>2, <1>3
  <2> HIDE DEF x, y
  <2> QED
    BY <2>3, <2>4, <1>2
<1> QED
  BY <1>4, <1>5, <1>6 DEF at

(* A clock has a first instant after t, among those from a number on.      *)
LEMMA FirstAfter ==
    ASSUME NEW c \in Clocks, NEW from \in 1 .. Never, NEW t \in Int, t - c.start + 2 <= Never
    PROVE  \E n \in from .. Never :
             /\ Sampled!Instant(c, n) > t
             /\ n > from => Sampled!Instant(c, n - 1) <= t
<1> DEFINE S == {n \in Nat : n >= from /\ Sampled!Instant(c, n) > t}
           m == t - c.start + 2
           M == Sampled!Greater(m, from)
<1>1. c.start \in Int /\ c.interval \in Nat \ {0} /\ Never \in Nat
  BY ClockIs
<1>2. m \in Int /\ M \in from .. Never /\ M >= m /\ from \in Nat
  BY <1>1 DEF Sampled!Greater
<1> HIDE DEF m, M
<1>3. Sampled!Instant(c, M) > t
  <2>1. (M - 1) * 1 <= (M - 1) * c.interval
    <3>1. M - 1 \in Nat /\ 1 \in Int
      BY <1>2
    <3>2. ASSUME NEW i \in Nat, NEW j \in Int, NEW k \in Int, j <= k PROVE i * j <= i * k
      BY <3>2
    <3> QED
      BY <3>1, <3>2, <1>1
  <2>2. (M - 1) * c.interval \in Int /\ (M - 1) * 1 = M - 1
    BY <1>1, <1>2
  <2> DEFINE x == (M - 1) * c.interval
  <2>3. x \in Int /\ M - 1 <= x /\ Sampled!Instant(c, M) = c.start + x
    BY <2>1, <2>2 DEF Sampled!Instant
  <2> HIDE DEF x
  <2> QED
    BY <2>3, <1>1, <1>2 DEF m
<1>4. M \in S
  BY <1>2, <1>3
<1>5. PICK n \in S : \A i \in S : n <= i
  <2>1. S \subseteq Nat /\ S # {}
    BY <1>4
  <2> HIDE DEF S
  <2> QED
    BY <2>1, LeastIs
<1>6. n \in from .. Never
  BY <1>1, <1>2, <1>4, <1>5
<1>7. ASSUME n > from PROVE Sampled!Instant(c, n - 1) <= t
  <2>1. n - 1 \in Nat /\ n - 1 >= from /\ n - 1 \notin S
    BY <1>2, <1>5, <1>7
  <2>2. ~(Sampled!Instant(c, n - 1) > t)
    BY <2>1
  <2>3. Sampled!Instant(c, n - 1) \in Int
    BY <2>1, InstantIs
  <2> QED
    BY <2>2, <2>3
<1> QED
  BY <1>5, <1>6, <1>7

(* What the counting at the time t returns.                                *)
LEMMA CountedIs ==
    ASSUME NEW c \in Clocks, NEW from \in 1 .. Never, NEW t \in 0 .. SampleHorizon
    PROVE  LET n == Sampled!Counted(c, from, t)
           IN  /\ n \in from .. Never
               /\ Sampled!Instant(c, n) > t + SampleAccuracy
               /\ n > from => Sampled!Instant(c, n - 1) <= t + SampleAccuracy
<1>1. t + SampleAccuracy \in Int /\ t + SampleAccuracy - c.start + 2 <= Never
  BY ClockIs
<1>2. \E n \in from .. Never :
             /\ Sampled!Instant(c, n) > t + SampleAccuracy
             /\ n > from => Sampled!Instant(c, n - 1) <= t + SampleAccuracy
  <2> DEFINE b == t + SampleAccuracy
  <2> HIDE DEF b
  <2>1. b \in Int /\ b - c.start + 2 <= Never
    BY <1>1, ClockIs DEF b
  <2>2. \E n \in from .. Never :
          Sampled!Instant(c, n) > b /\ (n > from => Sampled!Instant(c, n - 1) <= b)
    BY <2>1, FirstAfter
  <2> QED
    BY <2>2 DEF b
<1> QED
  BY <1>2 DEF Sampled!Counted

(* Where the initialisation starts to count: at the first instant that is  *)
(* not before the initial time.                                            *)
LEMMA FindCounterIs ==
    ASSUME NEW c \in Clocks
    PROVE  LET n == Sampled!FindCounter(Sampled!Greater(0, c.start), c)
           IN  /\ n \in 1 .. Never
               /\ Sampled!Instant(c, n) >= 0
               /\ n > 1 => Sampled!Instant(c, n - 1) < 0
<1> DEFINE t == Sampled!Greater(0, c.start)
<1>1. /\ c.start \in Int /\ t \in Int /\ t >= 0 /\ t >= c.start /\ (t = 0 \/ t = c.start)
      /\ 1 \in 1 .. Never /\ t - 1 - c.start + 2 <= Never
  BY ClockIs DEF Sampled!Greater
<1> HIDE DEF t
<1>2. \A n \in 1 .. Never : n \in Int /\ Sampled!Instant(c, n) \in Int /\ Sampled!Instant(c, n - 1) \in Int
  <2> TAKE n \in 1 .. Never
  <2>1. n \in Int /\ n - 1 \in Int
    OBVIOUS
  <2> QED
    BY <2>1, InstantIs
<1>3. \E n \in 1 .. Never :
             /\ Sampled!Instant(c, n) > t - 1
             /\ n > 1 => Sampled!Instant(c, n - 1) <= t - 1
  <2>1. t - 1 \in Int
    BY <1>1
  <2> QED
    BY <2>1, <1>1, FirstAfter
<1>4. \E n \in 1 .. Never : Sampled!Instant(c, n) >= t /\ (n > 1 => Sampled!Instant(c, n - 1) < t)
  <2>1. PICK n \in 1 .. Never :
             /\ Sampled!Instant(c, n) > t - 1
             /\ n > 1 => Sampled!Instant(c, n - 1) <= t - 1
    BY <1>3
  <2>2. Sampled!Instant(c, n) >= t /\ (n > 1 => Sampled!Instant(c, n - 1) < t)
    BY <2>1, <1>1, <1>2
  <2> QED
    BY <2>2
<1> DEFINE k == Sampled!FindCounter(t, c)
<1>5. k \in 1 .. Never /\ Sampled!Instant(c, k) >= t /\ (k > 1 => Sampled!Instant(c, k - 1) < t)
  BY <1>4 DEF Sampled!FindCounter
<1> HIDE DEF k
<1>6. ASSUME k > 1 PROVE Sampled!Instant(c, k - 1) < 0
  <2>1. k - 1 \in Int /\ 1 <= k - 1 /\ 1 \in Int
    BY <1>5, <1>6
  <2>2. Sampled!Instant(c, 1) <= Sampled!Instant(c, k - 1)
    BY <2>1, InstantIs
  <2>3. Sampled!Instant(c, 1) = c.start
    BY <1>1, ClockIs DEF Sampled!Instant
  <2> QED
    BY <2>2, <2>3, <1>1, <1>2, <1>5, <1>6
<1>7. k \in 1 .. Never /\ Sampled!Instant(c, k) >= 0
  BY <1>1, <1>2, <1>5
<1> QED
  BY <1>6, <1>7 DEF k, t

----------------------------------------------------------------------------
(* What is due.                                                            *)

(* The instants that are due before the n-th of the clock. *)
Before(c, n) == Sampled!Due(c, Sampled!Instant(c, n) - 1)

(* Those due up to t are on phase; there is a finite number of them.       *)
LEMMA DueIs ==
    ASSUME NEW c \in Clocks, NEW t \in Int
    PROVE  /\ Sampled!Due(c, t) =
                {at \in 0 .. t : at >= c.start /\ at >= FirstOf(c) /\ OnPhase(c, at)}
           /\ IsFiniteSet(Sampled!Due(c, t))
<1>1. Sampled!Due(c, t) = {at \in 0 .. t : at >= c.start /\ at >= FirstOf(c) /\ OnPhase(c, at)}
  BY DEF Sampled!Due, FirstOf, OnPhase, Period
<1>2. Sampled!Due(c, t) \subseteq 0 .. t
  BY <1>1
<1>3. IsFiniteSet(0 .. t)
  BY FS_Interval
<1> QED
  BY <1>1, <1>2, <1>3, FS_Subset

(* With the n-th the first instant after t, what is due before it is what  *)
(* is due up to t.                                                         *)
LEMMA DueBefore ==
    ASSUME NEW c \in Clocks, NEW n \in 1 .. Never, NEW t \in Int,
           Sampled!Instant(c, n) > t, n > 1 => Sampled!Instant(c, n - 1) <= t
    PROVE  Before(c, n) = Sampled!Due(c, t)
<1> DEFINE b == Sampled!Instant(c, n)
<1>1. n \in Int /\ b \in Int /\ b - 1 \in Int /\ c.start \in Int /\ c.interval \in Nat \ {0}
  BY InstantIs, ClockIs
<1>2. Before(c, n) = Sampled!Due(c, b - 1)
  BY DEF Before
<1>3. b > t /\ (n > 1 => b - c.interval <= t) /\ (n = 1 => b = c.start)
  <2>1. Sampled!Instant(c, n - 1) = b - c.interval
    BY <1>1, InstantIs
  <2>2. n = 1 => b = c.start
    BY <1>1 DEF Sampled!Instant
  <2> QED
    BY <2>1, <2>2
<1>4. ASSUME NEW at \in Int, OnPhase(c, at), at < b PROVE at <= b - c.interval
  BY <1>1, <1>4, OnPhaseBrackets
<1> HIDE DEF b
<1>5. ASSUME NEW at \in 0 .. b - 1, at >= c.start, OnPhase(c, at) PROVE at \in 0 .. t
  <2>1. at \in Int /\ at < b
    BY <1>1
  <2>2. at <= b - c.interval
    BY <2>1, <1>4, <1>5
  <2> QED
    BY <2>1, <2>2, <1>1, <1>3, <1>5
<1>6. 0 .. t \subseteq 0 .. b - 1
  BY <1>1, <1>3
<1> QED
  BY <1>1, <1>2, <1>5, <1>6, DueIs

(* One event, at t and not after the instant that was registered but for   *)
(* the accuracy: there is one more instant due that has been counted, or   *)
(* none, as the sampler finds.                                             *)
LEMMA DueStep ==
    ASSUME NEW c \in Clocks, NEW n \in 1 .. Never, NEW t \in 0 .. SampleHorizon,
           t <= Sampled!Next(c, n) + Accuracy, Sampled!Instant(c, n) >= 0,
           NEW k, k = Sampled!Counted(c, n, t)
    PROVE  /\ Cardinality(Before(c, n)) \in Nat
           /\ Cardinality(Before(c, k)) =
                IF Sampled!IsTrue(c, n, k) THEN Cardinality(Before(c, n)) + 1
                                           ELSE Cardinality(Before(c, n))
<1>1. /\ k \in n .. Never
      /\ Sampled!Instant(c, k) > t + SampleAccuracy
      /\ k > n => Sampled!Instant(c, k - 1) <= t + SampleAccuracy
  BY CountedIs
<1>2. n \in Int /\ k \in Int /\ k \in 1 .. Never /\ n <= k
  BY <1>1
<1> DEFINE a == Sampled!Instant(c, n)  b == Sampled!Instant(c, k)  r == Sampled!Next(c, n)
           d == c.interval  A == Before(c, n)  B == Before(c, k)  p == b - d
<1>3. /\ a \in Int /\ b \in Int /\ r \in Int /\ a <= r /\ a <= b /\ a >= 0
      /\ d \in Nat \ {0} /\ d > Accuracy + SampleAccuracy
      /\ c.start \in Int /\ FirstOf(c) \in Int
      /\ Accuracy \in Nat /\ SampleAccuracy \in Nat /\ t \in Int
  BY <1>2, InstantIs, NextBrackets, ClockIs
<1>4. p \in Int /\ Sampled!Instant(c, k - 1) = p
  BY <1>2, <1>3, InstantIs
<1>5. /\ A = {at \in 0 .. a - 1 : at >= c.start /\ at >= FirstOf(c) /\ OnPhase(c, at)}
      /\ B = {at \in 0 .. b - 1 : at >= c.start /\ at >= FirstOf(c) /\ OnPhase(c, at)}
      /\ IsFiniteSet(A) /\ IsFiniteSet(B)
  <2>1. a - 1 \in Int /\ b - 1 \in Int
    BY <1>3
  <2> HIDE DEF a, b
  <2> QED
    BY <2>1, DueIs DEF Before, a, b
<1>6. Cardinality(A) \in Nat
  BY <1>5, FS_CardinalityType
<1>7. CASE k = n
  <2>1. ~Sampled!IsTrue(c, n, k)
    BY <1>2, <1>7 DEF Sampled!IsTrue
  <2> QED
    BY <2>1, <1>6, <1>7
<1>8. CASE k > n
  <2>1. p <= t + SampleAccuracy /\ t <= r + Accuracy /\ p < r + d
    <3>1. p <= t + SampleAccuracy /\ t <= r + Accuracy
      BY <1>1, <1>4, <1>8
    <3> HIDE DEF p, r, d
    <3> QED
      BY <3>1, <1>3, <1>4
  <2>2. a <= p /\ p < b
    BY <1>2, <1>3, <1>4, <1>8, InstantIs
  <2>3. c.start <= p
    <3>1. 1 \in Int /\ k - 1 \in Int /\ 1 <= k - 1
      BY <1>2, <1>8
    <3>2. Sampled!Instant(c, 1) <= p
      BY <3>1, <1>4, InstantIs
    <3>3. Sampled!Instant(c, 1) = c.start
      BY <1>3 DEF Sampled!Instant
    <3> QED
      BY <3>2, <3>3
  <2>4. ASSUME NEW at \in Int, OnPhase(c, at)
        PROVE  /\ at >= a => at >= r
               /\ at < b => at <= p
               /\ at < p => at <= p - d
    <3>1. at >= a => at >= r
      BY <1>2, <2>4, OnPhaseBrackets
    <3>2. at < b => at <= p
      BY <1>2, <2>4, OnPhaseBrackets
    <3>3. at < p => at <= p - d
      <4>1. k - 1 \in Int
        BY <1>2
      <4> QED
        BY <4>1, <1>4, <2>4, OnPhaseBrackets
    <3> QED
      BY <3>1, <3>2, <3>3
  <2>5. Sampled!IsTrue(c, n, k) <=> OnPhase(c, p) /\ p >= FirstOf(c)
    BY <1>2, <1>4, <1>8, PassedIsOnPhase DEF Sampled!IsTrue
  <2> HIDE DEF a, b, r, d, A, B, p
  <2>6. ASSUME NEW at \in B, at \notin A PROVE at = p
    <3>1. at \in Int /\ OnPhase(c, at) /\ at < b /\ at >= a /\ at \in 0 .. b - 1
      BY <2>6, <1>3, <1>5
    <3>2. at >= r /\ at <= p
      BY <3>1, <2>4
    <3>3. at < p => at <= p - d
      BY <3>1, <2>4
    <3> QED
      BY <3>1, <3>2, <3>3, <2>1, <1>3, <1>4
  <2>7. A \subseteq B
    BY <1>3, <1>5
  <2>8. p \notin A /\ (p \in B <=> OnPhase(c, p) /\ p >= FirstOf(c))
    BY <1>3, <1>4, <1>5, <2>2, <2>3
  <2>9. CASE p \in B
    <3>1. B = A \cup {p}
      BY <2>6, <2>7, <2>9
    <3>2. Cardinality(B) = Cardinality(A) + 1
      BY <3>1, <1>5, <2>8, FS_AddElement
    <3> QED
      BY <3>2, <2>5, <2>8, <2>9, <1>6 DEF A, B
  <2>10. CASE p \notin B
    <3>1. B = A
      BY <2>6, <2>7, <2>10
    <3> QED
      BY <3>1, <2>5, <2>8, <2>10, <1>6 DEF A, B
  <2> QED
    BY <2>9, <2>10
<1> QED
  BY <1>2, <1>7, <1>8

----------------------------------------------------------------------------
(* The next time event.                                                    *)

(* An interval in which the next time event is. *)
Together(i) ==
    /\ i \in [first : Int, next : Int]
    /\ i.first <= i.next /\ i.next <= i.first + Accuracy /\ i.next < Never

(* The first instant that is registered is the interval.                   *)
LEMMA RegisteredFirst ==
    ASSUME NEW first, NEW at \in Int, at + Accuracy < Never, Accuracy \in Nat, Never \in Nat
    PROVE  LET i == Sampled!Registered([first |-> first, next |-> Never], at)
           IN  Together(i) /\ i.first = at
<1> DEFINE i == [first |-> first, next |-> Never]
<1>1. i.next = Never /\ i.first = first
  OBVIOUS
<1>2. Sampled!Registered(i, at) = [first |-> at, next |-> at]
  <2> HIDE DEF i
  <2> QED
    BY <1>1 DEF Sampled!Registered
<1>3. Together([first |-> at, next |-> at])
  BY DEF Together
<1> QED
  BY <1>2, <1>3

(* The others extend it towards the earliest of them, and no further than  *)
(* the accuracy.                                                           *)
LEMMA RegisteredIs ==
    ASSUME NEW i, Together(i), NEW at \in Int, at + Accuracy < Never, Accuracy \in Nat, Never \in Nat
    PROVE  LET j == Sampled!Registered(i, at)
           IN  /\ Together(j)
               /\ j.first <= i.first /\ j.first <= at /\ (j.first = i.first \/ j.first = at)
<1>1. /\ i.first \in Int /\ i.next \in Int /\ i = [first |-> i.first, next |-> i.next]
      /\ i.first <= i.next /\ i.next <= i.first + Accuracy /\ i.next < Never
  BY DEF Together
<1>2. CASE at >= i.next + Accuracy
  <2>1. Sampled!Registered(i, at) = [i EXCEPT !.first = i.first]
    BY <1>1, <1>2 DEF Sampled!Registered
  <2>2. Sampled!Registered(i, at) = i
    BY <2>1, <1>1
  <2> QED
    BY <2>2, <1>1, <1>2
<1>3. CASE at < i.next + Accuracy /\ at < i.first
  <2> DEFINE x == IF at + Accuracy < i.next THEN at ELSE i.next
  <2>1. Sampled!Registered(i, at) = [first |-> at, next |-> x]
    BY <1>1, <1>3 DEF Sampled!Registered
  <2>2. x \in Int /\ at <= x /\ x <= at + Accuracy /\ x < Never
    BY <1>1, <1>3
  <2> HIDE DEF x
  <2>3. Together([first |-> at, next |-> x])
    BY <2>2 DEF Together
  <2> QED
    BY <2>1, <2>3, <1>1, <1>3
<1>4. CASE at < i.next + Accuracy /\ at >= i.first
  <2> DEFINE x == IF at <= i.first + Accuracy /\ at > i.next THEN at ELSE i.next
  <2>1. Sampled!Registered(i, at) = [first |-> i.first, next |-> x]
    BY <1>1, <1>4 DEF Sampled!Registered
  <2>2. x \in Int /\ i.first <= x /\ x <= i.first + Accuracy /\ x < Never
    BY <1>1, <1>4
  <2> HIDE DEF x
  <2>3. Together([first |-> i.first, next |-> x])
    BY <2>2, <1>1 DEF Together
  <2> QED
    BY <2>1, <2>3, <1>1, <1>4
<1> QED
  BY <1>1, <1>2, <1>3, <1>4

(* The samplers register their instants one after the other: the interval  *)
(* begins at the earliest of all.                                          *)
LEMMA MergedIs ==
    ASSUME NEW from, NEW at \in [1 .. SamplerCount -> Int],
           \A s \in 1 .. SamplerCount : at[s] + Accuracy < Never
    PROVE  LET i == Sampled!Merged(from, at)
           IN  /\ Together(i)
               /\ \A s \in 1 .. SamplerCount : i.first <= at[s]
               /\ \E s \in 1 .. SamplerCount : i.first = at[s]
<1> DEFINE n == SamplerCount
           base == [first |-> from, next |-> Never]
           Step(g, s) == IF s = 0 THEN base ELSE Sampled!Registered(g[s - 1], at[s])
           Is(g, m) == g = [s \in 0 .. m |-> Step(g, s)]
           f == CHOOSE g : Is(g, n)
<1>1. n \in Nat \ {0} /\ Accuracy \in Nat /\ Never \in Nat
  BY SamplersAssumption DEF Sampled!TimeEventsAssumption
<1>2. Sampled!Merged(from, at) = f[n]
  BY DEF Sampled!Merged
<1> HIDE DEF n, base
<1>3. \A m \in 0 .. n : \E g : Is(g, m)
  <2> DEFINE S == {m \in 0 .. n : ~\E g : Is(g, m)}
  <2>1. SUFFICES ASSUME S # {} PROVE FALSE
    OBVIOUS
  <2>2. PICK m \in S : \A x \in S : m <= x
    <3>1. S \subseteq Nat
      BY <1>1
    <3> HIDE DEF S
    <3> QED
      BY <2>1, <3>1, LeastIs
  <2>3. CASE m = 0
    <3>1. Is([s \in 0 .. 0 |-> base], 0)
      OBVIOUS
    <3> QED
      BY <2>2, <2>3, <3>1
  <2>4. CASE m # 0
    <3>1. m \in 0 .. n /\ m - 1 \in 0 .. n /\ m - 1 \notin S
      BY <1>1, <2>2, <2>4
    <3>2. PICK g : Is(g, m - 1)
      BY <3>1
    <3> DEFINE h == [s \in 0 .. m |-> IF s = m THEN Sampled!Registered(g[m - 1], at[m]) ELSE g[s]]
    <3>3. \A s \in 0 .. m : h[s] = Step(h, s)
      <4> TAKE s \in 0 .. m
      <4>1. CASE s = m
        <5>1. h[m - 1] = g[m - 1] /\ m - 1 \in 0 .. m
          BY <3>1, <1>1, <2>4
        <5>2. h[m] = Sampled!Registered(g[m - 1], at[m]) /\ m \in 0 .. m
          BY <3>1, <1>1
        <5> QED
          BY <4>1, <5>1, <5>2, <2>4
      <4>2. CASE s # m
        <5>1. s \in 0 .. m - 1 /\ h[s] = g[s]
          BY <3>1, <1>1, <4>2
        <5>2. g[s] = Step(g, s)
          BY <3>2, <5>1
        <5>3. s # 0 => h[s - 1] = g[s - 1]
          BY <3>1, <1>1, <5>1
        <5> QED
          BY <5>1, <5>2, <5>3
      <4> QED
        BY <4>1, <4>2
    <3>4. h = [s \in 0 .. m |-> Step(h, s)]
      <4>1. h = [s \in 0 .. m |-> h[s]]
        OBVIOUS
      <4> HIDE DEF h
      <4> QED
        BY <3>3, <4>1
    <3> HIDE DEF h
    <3>5. Is(h, m)
      BY <3>4
    <3> QED
      BY <2>2, <3>5
  <2> QED
    BY <2>3, <2>4
<1>4. Is(f, n)
  <2>1. n \in 0 .. n
    BY <1>1
  <2> HIDE DEF Is
  <2> QED
    BY <1>3, <2>1
<1>5. f[0] = base /\ \A s \in 1 .. n : f[s] = Sampled!Registered(f[s - 1], at[s])
  <2> HIDE DEF f
  <2>1. \A s \in 0 .. n : f[s] = Step(f, s)
    BY <1>4
  <2> QED
    BY <1>1, <2>1
<1> HIDE DEF f
<1> DEFINE Good(m) == /\ Together(f[m])
                      /\ \A s \in 1 .. m : f[m].first <= at[s]
                      /\ \E s \in 1 .. m : f[m].first = at[s]
           R == {m \in 1 .. n : ~Good(m)}
<1>6. SUFFICES ASSUME R # {} PROVE FALSE
  <2>1. n \in 1 .. n
    BY <1>1
  <2>2. R = {} => Good(n)
    BY <2>1
  <2> HIDE DEF Good, R
  <2>3. SUFFICES Good(n)
    BY <1>2 DEF Good, n
  <2> QED
    BY <2>2
<1>7. PICK m \in R : \A x \in R : m <= x
  <2>1. R \subseteq Nat
    BY <1>1
  <2> HIDE DEF R
  <2> QED
    BY <1>6, <2>1, LeastIs
<1>8. /\ m \in 1 .. n /\ ~Good(m)
      /\ at[m] \in Int /\ at[m] + Accuracy < Never
      /\ f[m] = Sampled!Registered(f[m - 1], at[m])
  <2>1. m \in 1 .. n /\ ~Good(m)
    BY <1>7
  <2> QED
    BY <2>1, <1>5 DEF n
<1>9. CASE m = 1
  <2>1. f[1] = Sampled!Registered(base, at[1])
    BY <1>5, <1>8, <1>9
  <2>2. Together(f[1]) /\ f[1].first = at[1]
    BY <2>1, <1>1, <1>8, <1>9, RegisteredFirst DEF base
  <2>3. Good(1)
    BY <2>2, <1>8, <1>9
  <2> QED
    BY <2>3, <1>8, <1>9
<1>10. CASE m # 1
  <2>1. m - 1 \in 1 .. n /\ m - 1 \notin R /\ 1 .. m = (1 .. m - 1) \cup {m}
    BY <1>1, <1>7, <1>8, <1>10
  <2>2. Good(m - 1)
    BY <2>1
  <2> DEFINE i == f[m - 1]
             j == f[m]
  <2>3. Together(i)
    BY <2>2
  <2>4. Together(j) /\ j.first <= i.first /\ j.first <= at[m] /\ (j.first = i.first \/ j.first = at[m])
    <3> HIDE DEF i
    <3> QED
      BY <2>3, <1>1, <1>8, RegisteredIs DEF i
  <2>5. i.first \in Int /\ j.first \in Int
    BY <2>3, <2>4 DEF Together
  <2>6. \A s \in 1 .. m - 1 : i.first <= at[s] /\ at[s] \in Int
    <3>1. \A s \in 1 .. m - 1 : i.first <= at[s]
      BY <2>2
    <3>2. \A s \in 1 .. m - 1 : s \in 1 .. SamplerCount
      BY <1>1, <1>8 DEF n
    <3> QED
      BY <3>1, <3>2
  <2>7. PICK s \in 1 .. m - 1 : i.first = at[s]
    BY <2>2
  <2> HIDE DEF i, j
  <2>8. \A x \in 1 .. m : j.first <= at[x]
    <3>1. \A x \in 1 .. m - 1 : j.first <= at[x]
      BY <2>4, <2>5, <2>6
    <3> QED
      BY <3>1, <2>1, <2>4
  <2>9. \E x \in 1 .. m : j.first = at[x]
    BY <2>1, <2>4, <2>7
  <2>10. Good(m)
    BY <2>4, <2>8, <2>9 DEF j
  <2> QED
    BY <2>10, <1>8
<1> QED
  BY <1>9, <1>10

----------------------------------------------------------------------------
(* What holds of the samplers: one has been true once for each instant     *)
(* that is due before the next of its clock.  In an event the present time *)
(* is not after the instant that was registered last, but for the accuracy *)
(* of time events; after an iteration the next of every clock is ahead,    *)
(* and so is the interval that begins with the earliest of them.           *)

SamplerInv(s) ==
    LET c == clock[s]
    IN  /\ ticks[s] = Cardinality(Before(c, NextSampleTimeNew[s]))
        /\ Sampled!Instant(c, NextSampleTime[s]) >= 0
        /\ NextSampleTime[s] > 1 => Sampled!Instant(c, NextSampleTime[s] - 1) <= now + SampleAccuracy
        /\ NextSampleTimeNew[s] >= NextSampleTime[s]
        /\ ~inEvent \/ Iter = 0 => NextSampleTimeNew[s] = NextSampleTime[s]
        /\ inEvent => now <= Sampled!Next(c, NextSampleTime[s]) + Accuracy
        /\ inEvent /\ Iter > 0 =>
              NextSampleTimeNew[s] = Sampled!Counted(c, NextSampleTime[s], now)
        /\ Iter > 0 =>
              /\ Sampled!Instant(c, NextSampleTimeNew[s]) > now + SampleAccuracy
              /\ StartNextTimeEvent <= Sampled!Next(c, NextSampleTimeNew[s])

SamplersInv ==
    /\ Sampled!TypeOK
    /\ \A s \in 1 .. SamplerCount : SamplerInv(s)
    /\ Iter > 0 => /\ StartNextTimeEvent > now
                   /\ NextTimeEvent <= StartNextTimeEvent + Accuracy
    /\ ~inEvent /\ Iter = 0 => now = 0 /\ NextTimeEvent = 0

(* The assumptions, for a step.                                            *)
LEMMA SamplersAre ==
    /\ SamplerCount \in Nat \ {0} /\ Iterations \in Nat
    /\ Accuracy \in Nat /\ SampleAccuracy \in Nat /\ SampleHorizon \in Nat /\ Never \in Nat
BY SamplersAssumption DEF Sampled!TimeEventsAssumption

(* At the initial time nothing has been due.                               *)
LEMMA SamplersStart == Sampled!Init => SamplersInv
<1> SUFFICES ASSUME Sampled!Init PROVE SamplersInv
  OBVIOUS
<1>1. /\ clock \in [1 .. SamplerCount -> Clocks]
      /\ now = 0 /\ inEvent = FALSE /\ Iter = 0
      /\ StartNextTimeEvent = 0 /\ NextTimeEvent = 0
      /\ NextSampleTime = [s \in 1 .. SamplerCount |->
             Sampled!FindCounter(Sampled!Greater(0, clock[s].start), clock[s])]
      /\ NextSampleTimeNew = NextSampleTime
      /\ ticks = [s \in 1 .. SamplerCount |-> 0]
  BY DEF Sampled!Init, Sampled!Samplers
<1>2. ASSUME NEW s \in 1 .. SamplerCount
      PROVE  /\ clock[s] \in Clocks
             /\ NextSampleTime[s] \in 1 .. Never
             /\ Sampled!Instant(clock[s], NextSampleTime[s]) >= 0
             /\ NextSampleTime[s] > 1 => Sampled!Instant(clock[s], NextSampleTime[s] - 1) < 0
  <2>1. clock[s] \in Clocks
    BY <1>1
  <2>2. NextSampleTime[s] = Sampled!FindCounter(Sampled!Greater(0, clock[s].start), clock[s])
    BY <1>1
  <2> QED
    BY <2>1, <2>2, FindCounterIs
<1>3. Sampled!TypeOK
  <2>1. NextSampleTime \in [1 .. SamplerCount -> 1 .. Never]
    BY <1>1, <1>2
  <2>2. ticks \in [1 .. SamplerCount -> Nat]
    BY <1>1
  <2>3. now \in 0 .. SampleHorizon /\ Iter \in 0 .. Iterations
        /\ StartNextTimeEvent \in 0 .. Never /\ NextTimeEvent \in StartNextTimeEvent .. Never
    BY <1>1, SamplersAre
  <2> QED
    BY <1>1, <2>1, <2>2, <2>3 DEF Sampled!TypeOK, Sampled!Samplers
<1>4. ASSUME NEW s \in 1 .. SamplerCount PROVE SamplerInv(s)
  <2> DEFINE c == clock[s]
             n == NextSampleTime[s]
  <2>1. /\ c \in Clocks /\ n \in 1 .. Never
        /\ Sampled!Instant(c, n) >= 0
        /\ n > 1 => Sampled!Instant(c, n - 1) < 0
    BY <1>2
  <2>2. n \in Int /\ n - 1 \in Int
    BY <2>1
  <2>3. Sampled!Instant(c, n) \in Int /\ Sampled!Instant(c, n - 1) \in Int
    <3> HIDE DEF c, n
    <3> QED
      BY <2>1, <2>2, InstantIs
  <2>4. Before(c, n) = Sampled!Due(c, -1)
    <3> HIDE DEF c, n
    <3>1. Sampled!Instant(c, n) > -1 /\ (n > 1 => Sampled!Instant(c, n - 1) <= -1) /\ -1 \in Int
      BY <2>1, <2>3
    <3> QED
      BY <2>1, <3>1, DueBefore
  <2>5. Sampled!Due(c, -1) = {}
    BY <2>1, DueIs
  <2>6. Cardinality(Before(c, n)) = 0
    BY <2>4, <2>5, FS_EmptySet
  <2>7. ticks[s] = 0 /\ NextSampleTimeNew[s] = n
    BY <1>1
  <2>8. n > 1 => Sampled!Instant(c, n - 1) <= now + SampleAccuracy
    BY <2>1, <2>3, <1>1, SamplersAre
  <2> HIDE DEF c, n
  <2> QED
    BY <1>1, <2>1, <2>2, <2>6, <2>7, <2>8 DEF SamplerInv, c, n
<1> QED
  BY <1>1, <1>3, <1>4 DEF SamplersInv

(* An event is at the time that was registered, or before it.              *)
LEMMA SamplersEvent ==
    ASSUME SamplersInv, NEW t \in 0 .. SampleHorizon, Sampled!Event(t)
    PROVE  SamplersInv'
<1>1. /\ ~inEvent /\ now <= t /\ t <= NextTimeEvent
      /\ now' = t /\ inEvent' = TRUE /\ Iter' = 0
      /\ UNCHANGED <<clock, StartNextTimeEvent, NextTimeEvent, NextSampleTime,
                     NextSampleTimeNew, ticks>>
  BY DEF Sampled!Event
<1>2. Sampled!TypeOK /\ now \in Int /\ t \in Int /\ NextTimeEvent \in Int /\ StartNextTimeEvent \in Int
      /\ Iter \in Nat
  BY SamplersAre DEF SamplersInv, Sampled!TypeOK
<1>3. Sampled!TypeOK'
  BY <1>1, <1>2, SamplersAre DEF Sampled!TypeOK, Sampled!Samplers
<1>4. ASSUME NEW s \in 1 .. SamplerCount PROVE SamplerInv(s)'
  <2> DEFINE c == clock[s]
             n == NextSampleTime[s]
  <2>1. c \in Clocks /\ n \in 1 .. Never
    BY <1>2 DEF Sampled!TypeOK, Sampled!Samplers
  <2>2. n \in Int /\ n - 1 \in Int
    BY <2>1
  <2>3. /\ Sampled!Instant(c, n) \in Int /\ Sampled!Instant(c, n - 1) \in Int
        /\ Sampled!Next(c, n) \in Int /\ Sampled!Instant(c, n) <= Sampled!Next(c, n)
    <3> HIDE DEF c, n
    <3> QED
      BY <2>1, <2>2, InstantIs, NextBrackets
  <2>4. /\ ticks[s] = Cardinality(Before(c, n)) /\ NextSampleTimeNew[s] = n
        /\ Sampled!Instant(c, n) >= 0
        /\ n > 1 => Sampled!Instant(c, n - 1) <= now + SampleAccuracy
        /\ Iter > 0 => StartNextTimeEvent <= Sampled!Next(c, n)
    BY <1>1 DEF SamplersInv, SamplerInv
  <2> HIDE DEF c, n
  <2>5. t <= Sampled!Next(c, n) + Accuracy
    <3>1. CASE Iter > 0
      BY <3>1, <1>1, <1>2, <2>3, <2>4, SamplersAre DEF SamplersInv
    <3>2. CASE Iter = 0
      <4>1. NextTimeEvent = 0
        BY <3>2, <1>1 DEF SamplersInv
      <4> QED
        BY <4>1, <1>1, <1>2, <2>3, <2>4, SamplersAre
    <3> QED
      BY <3>1, <3>2, <1>2
  <2>6. n > 1 => Sampled!Instant(c, n - 1) <= t + SampleAccuracy
    BY <1>1, <1>2, <2>3, <2>4, SamplersAre
  <2>7. clock'[s] = c /\ NextSampleTime'[s] = n /\ NextSampleTimeNew'[s] = n /\ ticks'[s] = ticks[s]
    BY <1>1, <2>4 DEF c, n
  <2> QED
    BY <1>1, <2>2, <2>4, <2>5, <2>6, <2>7 DEF SamplerInv
<1>5. (Iter > 0 => StartNextTimeEvent > now /\ NextTimeEvent <= StartNextTimeEvent + Accuracy)'
  BY <1>1
<1>6. (~inEvent /\ Iter = 0 => now = 0 /\ NextTimeEvent = 0)'
  BY <1>1
<1> QED
  BY <1>3, <1>4, <1>5, <1>6 DEF SamplersInv

(* The end of the event: what was counted is the next one.                 *)
LEMMA SamplersEnd ==
    ASSUME SamplersInv, Sampled!EndEvent
    PROVE  SamplersInv'
<1>1. /\ inEvent /\ Iter > 0 /\ inEvent' = FALSE /\ NextSampleTime' = NextSampleTimeNew
      /\ UNCHANGED <<clock, now, Iter, StartNextTimeEvent, NextTimeEvent,
                     NextSampleTimeNew, ticks>>
  BY DEF Sampled!EndEvent
<1>2. Sampled!TypeOK /\ now \in Int /\ now \in 0 .. SampleHorizon
  BY SamplersAre DEF SamplersInv, Sampled!TypeOK
<1>3. Sampled!TypeOK'
  BY <1>1, <1>2 DEF Sampled!TypeOK, Sampled!Samplers
<1>4. ASSUME NEW s \in 1 .. SamplerCount PROVE SamplerInv(s)'
  <2> DEFINE c == clock[s]
             n == NextSampleTime[s]
             k == NextSampleTimeNew[s]
  <2>1. c \in Clocks /\ n \in 1 .. Never /\ k \in 1 .. Never
    BY <1>2 DEF Sampled!TypeOK, Sampled!Samplers
  <2>4. /\ ticks[s] = Cardinality(Before(c, k))
        /\ Sampled!Instant(c, n) >= 0
        /\ n > 1 => Sampled!Instant(c, n - 1) <= now + SampleAccuracy
        /\ k = Sampled!Counted(c, n, now)
        /\ Sampled!Instant(c, k) > now + SampleAccuracy
        /\ StartNextTimeEvent <= Sampled!Next(c, k)
    BY <1>1 DEF SamplersInv, SamplerInv
  <2> HIDE DEF c, n, k
  <2>5. k >= n /\ (k > n => Sampled!Instant(c, k - 1) <= now + SampleAccuracy)
    BY <1>2, <2>1, <2>4, CountedIs
  <2>6. k > 1 => Sampled!Instant(c, k - 1) <= now + SampleAccuracy
    BY <2>1, <2>4, <2>5
  <2>7. Sampled!Instant(c, k) >= 0
    <3>1. k \in Int
      BY <2>1
    <3>2. Sampled!Instant(c, k) \in Int
      BY <2>1, <3>1, InstantIs
    <3> QED
      BY <3>2, <1>2, <2>4, SamplersAre
  <2>8. clock'[s] = c /\ NextSampleTime'[s] = k /\ NextSampleTimeNew'[s] = k /\ ticks'[s] = ticks[s]
    BY <1>1 DEF c, k
  <2>9. k \in Int
    BY <2>1
  <2> QED
    BY <1>1, <2>4, <2>6, <2>7, <2>8, <2>9 DEF SamplerInv
<1> QED
  BY <1>1, <1>3, <1>4 DEF SamplersInv

(* An iteration: all samplers count up to the present time, find whether   *)
(* they are true the first time, and register their next instants.         *)
LEMMA SamplersIterate ==
    ASSUME SamplersInv, Sampled!Iterate
    PROVE  SamplersInv'
<1> DEFINE new == [s \in 1 .. SamplerCount |-> Sampled!Counted(clock[s], NextSampleTime[s], now)]
           at  == [s \in 1 .. SamplerCount |-> Sampled!Next(clock[s], new[s])]
           interval == Sampled!Merged(StartNextTimeEvent, at)
<1>1. /\ inEvent /\ Iter < Iterations /\ Iter' = Iter + 1
      /\ NextSampleTimeNew' = new
      /\ StartNextTimeEvent' = interval.first
      /\ NextTimeEvent' = interval.next
      /\ ticks' = [s \in 1 .. SamplerCount |->
            IF Iter' = 1 /\ Sampled!IsTrue(clock[s], NextSampleTime[s], new[s])
            THEN ticks[s] + 1 ELSE ticks[s]]
      /\ UNCHANGED <<clock, now, inEvent, NextSampleTime>>
  BY DEF Sampled!Iterate, Sampled!Samplers
<1>2. /\ Sampled!TypeOK /\ now \in Int /\ now \in 0 .. SampleHorizon /\ Iter \in 0 .. Iterations
      /\ clock \in [1 .. SamplerCount -> Clocks]
      /\ NextSampleTime \in [1 .. SamplerCount -> 1 .. Never]
      /\ ticks \in [1 .. SamplerCount -> Nat]
  BY SamplersAre DEF SamplersInv, Sampled!TypeOK, Sampled!Samplers
<1>3. ASSUME NEW s \in 1 .. SamplerCount
      PROVE  /\ clock[s] \in Clocks /\ NextSampleTime[s] \in 1 .. Never
             /\ new[s] = Sampled!Counted(clock[s], NextSampleTime[s], now)
             /\ new[s] \in 1 .. Never /\ new[s] >= NextSampleTime[s] /\ new[s] \in Int
             /\ Sampled!Instant(clock[s], new[s]) > now + SampleAccuracy
             /\ new[s] > 1 => Sampled!Instant(clock[s], new[s] - 1) <= now + SampleAccuracy
  <2> DEFINE c == clock[s]
             n == NextSampleTime[s]
             k == new[s]
  <2>1. c \in Clocks /\ n \in 1 .. Never /\ k = Sampled!Counted(c, n, now)
    BY <1>2
  <2>2. n > 1 => Sampled!Instant(c, n - 1) <= now + SampleAccuracy
    BY DEF SamplersInv, SamplerInv
  <2> HIDE DEF c, n, k
  <2>3. /\ k \in n .. Never
        /\ Sampled!Instant(c, k) > now + SampleAccuracy
        /\ k > n => Sampled!Instant(c, k - 1) <= now + SampleAccuracy
    BY <1>2, <2>1, CountedIs
  <2>4. k \in 1 .. Never /\ k >= n /\ k \in Int /\ (k > n \/ k = n)
    BY <2>1, <2>3
  <2>5. k > 1 => Sampled!Instant(c, k - 1) <= now + SampleAccuracy
    BY <2>2, <2>3, <2>4
  <2> QED
    BY <2>1, <2>3, <2>4, <2>5 DEF c, n, k
<1> HIDE DEF new
<1>4. ASSUME NEW s \in 1 .. SamplerCount
      PROVE  /\ at[s] = Sampled!Next(clock[s], new[s])
             /\ at[s] \in Int /\ at[s] + Accuracy < Never /\ at[s] > now + SampleAccuracy
  <2> DEFINE c == clock[s]
             k == new[s]
             r == at[s]
  <2>1. r = Sampled!Next(c, k)
    OBVIOUS
  <2>2. /\ c \in Clocks /\ k \in Int /\ k \in 1 .. Never
        /\ Sampled!Instant(c, k) > now + SampleAccuracy
        /\ k > 1 => Sampled!Instant(c, k - 1) <= now + SampleAccuracy
    BY <1>3
  <2> HIDE DEF c, k, r
  <2>3. /\ r \in Int /\ Sampled!Instant(c, k) <= r
        /\ r <= Sampled!Instant(c, k) - c.interval + Period(c)
        /\ Sampled!Instant(c, k) \in Int
        /\ Sampled!Instant(c, k - 1) = Sampled!Instant(c, k) - c.interval
    BY <2>1, <2>2, NextBrackets, InstantIs
  <2>4. /\ c.start \in Int /\ c.interval \in Nat \ {0} /\ Period(c) \in Nat
        /\ SampleHorizon + SampleAccuracy + Period(c) + Accuracy < Never
        /\ c.start + Period(c) + Accuracy < Never
    BY <2>2, ClockIs
  <2>5. k = 1 => Sampled!Instant(c, k) = c.start
    BY <2>4 DEF Sampled!Instant
  <2>6. r + Accuracy < Never
    <3> DEFINE a == Sampled!Instant(c, k)
    <3>1. /\ a \in Int /\ r <= a - c.interval + Period(c)
          /\ k > 1 => a - c.interval <= now + SampleAccuracy
          /\ k = 1 => a = c.start
      BY <2>2, <2>3, <2>5
    <3> HIDE DEF a
    <3>2. CASE k = 1
      BY <3>1, <3>2, <2>3, <2>4, SamplersAre
    <3>3. CASE k > 1
      <4>1. now \in Int /\ now <= SampleHorizon
        BY <1>2
      <4>2. r \in Int /\ r <= now + SampleAccuracy + Period(c)
        BY <4>1, <3>1, <3>3, <2>3, <2>4, SamplersAre
      <4> QED
        BY <4>1, <4>2, <2>4, SamplersAre
    <3> QED
      BY <3>2, <3>3, <2>2
  <2>7. r > now + SampleAccuracy
    BY <1>2, <2>2, <2>3, SamplersAre
  <2> QED
    BY <2>1, <2>3, <2>6, <2>7 DEF c, k, r
<1>5. /\ Together(interval)
      /\ \A s \in 1 .. SamplerCount : interval.first <= at[s]
      /\ \E s \in 1 .. SamplerCount : interval.first = at[s]
  <2>1. at \in [1 .. SamplerCount -> Int] /\ \A s \in 1 .. SamplerCount : at[s] + Accuracy < Never
    <3>1. \A s \in 1 .. SamplerCount : at[s] \in Int /\ at[s] + Accuracy < Never
      BY <1>4
    <3> QED
      BY <3>1
  <2> HIDE DEF at
  <2> QED
    BY <2>1, MergedIs
<1>6. /\ interval.first \in Int /\ interval.next \in Int /\ interval.first > now
      /\ interval.first <= interval.next /\ interval.next <= interval.first + Accuracy
      /\ interval.next < Never
  <2>1. PICK s \in 1 .. SamplerCount : interval.first = at[s]
    BY <1>5
  <2>2. interval.first > now + SampleAccuracy
    BY <2>1, <1>4
  <2>3. /\ interval.first \in Int /\ interval.next \in Int
        /\ interval.first <= interval.next /\ interval.next <= interval.first + Accuracy
        /\ interval.next < Never
    BY <1>5 DEF Together
  <2> HIDE DEF interval
  <2> QED
    BY <1>2, <2>2, <2>3, SamplersAre
<1> HIDE DEF at, interval
<1>7. ASSUME NEW s \in 1 .. SamplerCount
      PROVE  /\ ticks'[s] \in Nat
             /\ ticks'[s] = Cardinality(Before(clock[s], new[s]))
  <2> DEFINE c == clock[s]
             n == NextSampleTime[s]
             k == new[s]
  <2>1. /\ c \in Clocks /\ n \in 1 .. Never /\ k \in Int
        /\ k = Sampled!Counted(c, n, now)
    BY <1>3
  <2>2. /\ ticks[s] = Cardinality(Before(c, NextSampleTimeNew[s]))
        /\ Sampled!Instant(c, n) >= 0
        /\ now <= Sampled!Next(c, n) + Accuracy
        /\ Iter = 0 => NextSampleTimeNew[s] = n
        /\ Iter > 0 => NextSampleTimeNew[s] = Sampled!Counted(c, n, now)
    BY <1>1 DEF SamplersInv, SamplerInv
  <2>3. /\ ticks'[s] = IF Iter' = 1 /\ Sampled!IsTrue(c, n, k) THEN ticks[s] + 1 ELSE ticks[s]
        /\ ticks[s] \in Nat
    BY <1>1, <1>2
  <2> HIDE DEF c, n, k
  <2>4. /\ Cardinality(Before(c, n)) \in Nat
        /\ Cardinality(Before(c, k)) =
             IF Sampled!IsTrue(c, n, k) THEN Cardinality(Before(c, n)) + 1
                                        ELSE Cardinality(Before(c, n))
    BY <1>2, <2>1, <2>2, DueStep
  <2>5. CASE Iter = 0
    <3>1. Iter' = 1 /\ ticks[s] = Cardinality(Before(c, n))
      BY <1>1, <2>2, <2>5
    <3> QED
      BY <3>1, <2>3, <2>4 DEF c, k
  <2>6. CASE Iter > 0
    <3>1. Iter' # 1
      BY <1>1, <1>2, <2>6, SamplersAre
    <3>2. ticks[s] = Cardinality(Before(c, k))
      BY <2>1, <2>2, <2>6
    <3> QED
      BY <3>1, <3>2, <2>3 DEF c, k
  <2> QED
    BY <2>5, <2>6, <1>2, SamplersAre
<1>8. Sampled!TypeOK'
  <2>1. NextSampleTimeNew' \in [1 .. SamplerCount -> 1 .. Never]
    <3>1. \A s \in 1 .. SamplerCount : new[s] \in 1 .. Never
      BY <1>3
    <3>2. new = [s \in 1 .. SamplerCount |-> new[s]]
      BY DEF new
    <3> QED
      BY <3>1, <3>2, <1>1
  <2>2. ticks' \in [1 .. SamplerCount -> Nat]
    <3>1. \A s \in 1 .. SamplerCount : ticks'[s] \in Nat
      BY <1>7
    <3>2. ticks' = [s \in 1 .. SamplerCount |-> ticks'[s]]
      BY <1>1
    <3> QED
      BY <3>1, <3>2
  <2>3. Iter' \in 0 .. Iterations
    BY <1>1, <1>2, SamplersAre
  <2>4. StartNextTimeEvent' \in 0 .. Never /\ NextTimeEvent' \in StartNextTimeEvent' .. Never
    BY <1>1, <1>2, <1>6, SamplersAre
  <2>5. clock' \in [1 .. SamplerCount -> Clocks] /\ now' \in 0 .. SampleHorizon
        /\ NextSampleTime' \in [1 .. SamplerCount -> 1 .. Never] /\ inEvent' \in BOOLEAN
    BY <1>1, <1>2 DEF Sampled!TypeOK
  <2> QED
    BY <2>1, <2>2, <2>3, <2>4, <2>5 DEF Sampled!TypeOK, Sampled!Samplers
<1>9. ASSUME NEW s \in 1 .. SamplerCount PROVE SamplerInv(s)'
  <2> DEFINE c == clock[s]
             n == NextSampleTime[s]
             k == new[s]
  <2>1. /\ k = Sampled!Counted(c, n, now) /\ k >= n
        /\ Sampled!Instant(c, k) > now + SampleAccuracy
    BY <1>3
  <2>2. /\ Sampled!Instant(c, n) >= 0
        /\ n > 1 => Sampled!Instant(c, n - 1) <= now + SampleAccuracy
        /\ now <= Sampled!Next(c, n) + Accuracy
    BY <1>1 DEF SamplersInv, SamplerInv
  <2>3. ticks'[s] = Cardinality(Before(c, k))
    BY <1>7
  <2>4. StartNextTimeEvent' <= Sampled!Next(c, k)
    BY <1>1, <1>4, <1>5
  <2>5. clock'[s] = c /\ NextSampleTime'[s] = n /\ NextSampleTimeNew'[s] = k
    BY <1>1
  <2>6. inEvent' /\ now' = now /\ Iter' > 0 /\ Iter' # 0
    BY <1>1, <1>2, SamplersAre
  <2> HIDE DEF c, n, k
  <2> QED
    BY <2>1, <2>2, <2>3, <2>4, <2>5, <2>6 DEF SamplerInv
<1>10. (Iter > 0 => StartNextTimeEvent > now /\ NextTimeEvent <= StartNextTimeEvent + Accuracy)'
  BY <1>1, <1>6
<1>11. inEvent'
  BY <1>1
<1> QED
  BY <1>8, <1>9, <1>10, <1>11 DEF SamplersInv

(* Between events what has been due has been counted, up to the accuracy   *)
(* of samplers, and what is due next is not before the next time event.    *)
LEMMA SamplersSay == SamplersInv => Sampled!TypeOK /\ Sampled!SampledInTime
<1> SUFFICES ASSUME SamplersInv, ~inEvent, Iter > 0
             PROVE  /\ NextTimeEvent > now
                    /\ \A s \in 1 .. SamplerCount :
                          /\ ticks[s] = Cardinality(Sampled!Due(clock[s], now + SampleAccuracy))
                          /\ Sampled!Due(clock[s], NextTimeEvent - Accuracy - 1)
                               \subseteq Sampled!Due(clock[s], now + SampleAccuracy)
  <2>1. \A S : Sampled!Cardinality(S) = Cardinality(S)
    BY DEF Sampled!Cardinality, Cardinality
  <2> QED
    BY <2>1 DEF SamplersInv, Sampled!SampledInTime, Sampled!Samplers
<1>1. /\ Sampled!TypeOK /\ now \in Int /\ now \in 0 .. SampleHorizon
      /\ StartNextTimeEvent \in Int /\ NextTimeEvent \in Int
      /\ StartNextTimeEvent > now /\ StartNextTimeEvent <= NextTimeEvent
      /\ NextTimeEvent <= StartNextTimeEvent + Accuracy
  BY SamplersAre DEF SamplersInv, Sampled!TypeOK
<1>2. ASSUME NEW s \in 1 .. SamplerCount
      PROVE  /\ ticks[s] = Cardinality(Sampled!Due(clock[s], now + SampleAccuracy))
             /\ Sampled!Due(clock[s], NextTimeEvent - Accuracy - 1)
                  \subseteq Sampled!Due(clock[s], now + SampleAccuracy)
  <2> DEFINE c == clock[s]
             n == NextSampleTime[s]
             t == now + SampleAccuracy
             e == NextTimeEvent - Accuracy - 1
  <2>1. c \in Clocks /\ n \in 1 .. Never
    BY <1>1 DEF Sampled!TypeOK, Sampled!Samplers
  <2>2. /\ ticks[s] = Cardinality(Before(c, n))
        /\ n > 1 => Sampled!Instant(c, n - 1) <= t
        /\ Sampled!Instant(c, n) > t
        /\ StartNextTimeEvent <= Sampled!Next(c, n)
    BY DEF SamplersInv, SamplerInv
  <2>3. t \in Int /\ e \in Int /\ e < StartNextTimeEvent /\ n \in Int
    BY <1>1, <2>1, SamplersAre
  <2> HIDE DEF c, n, t, e
  <2>4. Before(c, n) = Sampled!Due(c, t)
    BY <2>1, <2>2, <2>3, DueBefore
  <2>5. Sampled!Next(c, n) \in Int /\ Sampled!Instant(c, n) \in Int
    BY <2>1, <2>3, NextBrackets, InstantIs
  <2>6. ASSUME NEW at \in Sampled!Due(c, e) PROVE at \in Before(c, n)
    <3>1. /\ at \in Int /\ at >= 0 /\ at <= e
          /\ at >= c.start /\ at >= FirstOf(c) /\ OnPhase(c, at)
      BY <2>1, <2>3, <2>6, DueIs
    <3>2. at < Sampled!Next(c, n)
      BY <3>1, <1>1, <2>2, <2>3, <2>5
    <3>3. at < Sampled!Instant(c, n)
      BY <3>1, <3>2, <2>1, <2>3, <2>5, OnPhaseBrackets
    <3> DEFINE b == Sampled!Instant(c, n) - 1
    <3>4. b \in Int /\ at \in 0 .. b
      BY <3>1, <3>3, <2>5
    <3> HIDE DEF b
    <3>5. at \in Sampled!Due(c, b)
      BY <3>1, <3>4, <2>1, DueIs
    <3> QED
      BY <3>5 DEF Before, b
  <2> QED
    BY <2>2, <2>4, <2>6 DEF c, t, e
<1> QED
  BY <1>1, <1>2

(* Samplers are true once for each of their instants, none is passed by    *)
(* for more than the accuracy of time events, and time gets on from every  *)
(* event, whatever events come between (sampleFunctionM3 and               *)
(* registerTimeEventNew): for any number of samplers, whose intervals are  *)
(* longer than both accuracies together.                                   *)
THEOREM SamplersAreInTime == Spec => []SampledInTime
<1> DEFINE Inv == kind = "samplers" => SamplersInv
<1>1. Init => Inv
  BY SamplersStart DEF Init
<1>2. Inv /\ [Next]_vars => Inv'
  <2> SUFFICES ASSUME Inv, [Next]_vars PROVE Inv'
    OBVIOUS
  <2>1. CASE kind = "samplers" /\ Sampled!Step /\ UNCHANGED kind
    <3>1. SamplersInv
      BY <2>1
    <3>2. CASE Sampled!Iterate
      BY <3>1, <3>2, SamplersIterate
    <3>3. CASE Sampled!EndEvent
      BY <3>1, <3>3, SamplersEnd
    <3>4. CASE \E t \in 0 .. SampleHorizon : Sampled!Event(t)
      BY <3>1, <3>4, SamplersEvent
    <3> QED
      BY <2>1, <3>2, <3>3, <3>4 DEF Sampled!Step
  <2>2. CASE kind \in {"continuous", "discrete", "table"} /\ UNCHANGED kind
    BY <2>2
  <2>3. CASE UNCHANGED vars
    <3>1. UNCHANGED <<kind, now, NextTimeEvent, samplers>>
      BY <2>3 DEF vars
    <3>2. SamplersInv => SamplersInv'
      BY <3>1 DEF samplers, SamplersInv, SamplerInv, Sampled!TypeOK
    <3> QED
      BY <3>1, <3>2
  <2> QED
    BY <2>1, <2>2, <2>3 DEF Next
<1>3. Inv => SampledInTime
  BY SamplersSay DEF SampledInTime
<1> QED
  BY <1>1, <1>2, <1>3, PTL DEF Spec
----------------------------------------------------------------------------
(* Tables.  A table the program handles: one of a single abscissa has      *)
(* started, one that is periodic has a period, and another one does not    *)
(* end at 0 (dymTableTimeIni2).                                            *)

TableOK ==
    /\ u \in Tables /\ expoType \in 0 .. 2 /\ startTime \in StartTimes
    /\ Len(u) > 1 /\ expoType = 2 => u[Len(u)] > u[1]
    /\ Len(u) > 1 /\ expoType # 2 => u[Len(u)] # 0

(* The abscissas are in order.                                             *)
LEMMA TableIs ==
    ASSUME TableOK
    PROVE  /\ Len(u) \in Nat \ {0} /\ startTime \in Int /\ startTime <= Never
           /\ \A i \in 1 .. Len(u) : u[i] \in Int
           /\ \A i, j \in 1 .. Len(u) : i <= j => u[i] <= u[j]
           /\ u[1] \in Int /\ u[Len(u)] \in Int /\ u[1] <= u[Len(u)]
           /\ TableHorizon + (u[Len(u)] - u[1]) < Never /\ startTime + u[Len(u)] <= Never
           /\ TableHorizon \in Nat /\ Never \in Nat /\ TableHorizon < Never
<1>1. /\ u \in Seq(Int) /\ u # <<>>
      /\ \A i, j \in 1 .. Len(u) : i <= j => u[i] <= u[j]
      /\ TableHorizon + (u[Len(u)] - u[1]) < Never /\ startTime + u[Len(u)] <= Never
      /\ startTime \in Int /\ startTime <= Never
      /\ TableHorizon \in Nat /\ Never \in Nat /\ TableHorizon < Never
  BY TablesAssumption DEF Tabled!TableAssumption, TableOK
<1>2. Len(u) \in Nat \ {0} /\ \A i \in 1 .. Len(u) : u[i] \in Int
  BY <1>1
<1>3. 1 \in 1 .. Len(u) /\ Len(u) \in 1 .. Len(u) /\ 1 <= Len(u)
  BY <1>2
<1> QED
  BY <1>1, <1>2, <1>3

(* A limit is the time itself, or a unit of time before it.                *)
LEMMA LimitIs ==
    ASSUME NEW a \in Int
    PROVE  /\ Tabled!Limit(a) \in Int /\ a - 1 <= Tabled!Limit(a) /\ Tabled!Limit(a) <= a
           /\ a # 0 => Tabled!Limit(a) = a - 1
           /\ a = 0 => Tabled!Limit(a) = 0
           /\ \A b \in Int : a <= b => Tabled!Limit(a) <= Tabled!Limit(b)
BY DEF Tabled!Limit

(* The end of an interval is its abscissa but for two units.               *)
LEMMA EndIs ==
    ASSUME TableOK, NEW i \in 1 .. Len(u) - 1
    PROVE  /\ Tabled!End(i) \in Int /\ u[i] \in Int /\ u[i + 1] \in Int /\ u[i] <= u[i + 1]
           /\ u[1] <= u[i] /\ u[i + 1] <= u[Len(u)]
           /\ Tabled!End(i) <= Tabled!Limit(u[i + 1]) /\ Tabled!End(i) <= u[i + 1]
           /\ u[i + 1] - 2 <= Tabled!End(i)
           /\ expoType # 2 => Tabled!End(i) = Tabled!Limit(u[i + 1])
           /\ expoType = 2 => Tabled!End(i) = Tabled!Limit(u[i + 1]) - 1
<1>1. /\ i \in 1 .. Len(u) /\ i + 1 \in 1 .. Len(u) /\ i <= i + 1 /\ 1 <= i /\ i + 1 <= Len(u)
      /\ 1 \in 1 .. Len(u) /\ Len(u) \in 1 .. Len(u) /\ Len(u) > 1
  BY TableIs
<1>2. /\ u[i] \in Int /\ u[i + 1] \in Int /\ u[i] <= u[i + 1]
      /\ u[1] <= u[i] /\ u[i + 1] <= u[Len(u)] /\ u[1] \in Int /\ u[Len(u)] \in Int
  BY <1>1, TableIs
<1>3. Tabled!End(i) = Tabled!Limit(u[i + 1]) - (IF expoType = 2 /\ u[Len(u)] - u[1] > 0 THEN 1 ELSE 0)
  BY DEF Tabled!End, Tabled!T, Tabled!tmax, Tabled!tmin, Tabled!nt1
<1>4. expoType = 2 => u[Len(u)] - u[1] > 0
  BY <1>1, <1>2 DEF TableOK
<1>5. Tabled!End(i) = Tabled!Limit(u[i + 1]) - (IF expoType = 2 THEN 1 ELSE 0)
  BY <1>3, <1>4
<1>6. /\ Tabled!Limit(u[i + 1]) \in Int /\ u[i + 1] - 1 <= Tabled!Limit(u[i + 1])
      /\ Tabled!Limit(u[i + 1]) <= u[i + 1]
  BY <1>2, LimitIs
<1> QED
  BY <1>2, <1>5, <1>6

(* Where the search ends: not at the end of the table, in an interval that *)
(* has not ended, after one that has.                                      *)
LEMMA IntervalIs ==
    ASSUME TableOK, Len(u) > 1, NEW from \in 1 .. Len(u) - 1, NEW t \in Int
    PROVE  LET k == Tabled!Interval(from, t)
           IN  /\ k \in from .. Len(u) - 1
               /\ k = Len(u) - 1 \/ t < Tabled!End(k)
               /\ k > from => t >= Tabled!End(k - 1)
<1> DEFINE n == Len(u)
           S == {k \in from .. n : k >= n - 1 \/ t < Tabled!End(k)}
           Found(i) == /\ i >= n - 1 \/ t < Tabled!End(i)
                       /\ \A j \in from .. i - 1 : j < n - 1 /\ t >= Tabled!End(j)
           k == Tabled!Interval(from, t)
<1>1. n \in Nat /\ n > 1 /\ from \in Int /\ from >= 1 /\ from <= n - 1
  BY TableIs
<1>2. k = CHOOSE i \in from .. n : Found(i)
  BY DEF Tabled!Interval, Tabled!nt1
<1>3. \A j \in 1 .. n - 1 : Tabled!End(j) \in Int
  BY EndIs
<1> HIDE DEF n, k
<1>4. \E i \in from .. n : Found(i)
  <2>1. n - 1 \in S /\ S \subseteq Nat
    BY <1>1
  <2>2. PICK i \in S : \A y \in S : i <= y
    <3> HIDE DEF S
    <3> QED
      BY <2>1, LeastIs
  <2>3. i \in from .. n /\ i <= n - 1 /\ (i >= n - 1 \/ t < Tabled!End(i))
    BY <2>1, <2>2
  <2>4. ASSUME NEW j \in from .. i - 1 PROVE j < n - 1 /\ t >= Tabled!End(j)
    <3>1. j \in from .. n /\ j < n - 1 /\ j \in 1 .. n - 1 /\ j < i
      BY <1>1, <2>3
    <3>2. j \notin S
      BY <3>1, <2>2, <2>3, <1>1
    <3>3. ~(t < Tabled!End(j)) /\ Tabled!End(j) \in Int
      BY <3>1, <3>2, <1>3
    <3> QED
      BY <3>1, <3>3
  <2> QED
    BY <2>3, <2>4
<1>5. k \in from .. n /\ Found(k)
  <2> HIDE DEF Found
  <2> QED
    BY <1>2, <1>4
<1>6. k > from => k - 1 < n - 1 /\ t >= Tabled!End(k - 1)
  <2>1. k > from => k - 1 \in from .. k - 1
    BY <1>1, <1>5
  <2> QED
    BY <2>1, <1>5
<1>7. k \in from .. n - 1 /\ (k = n - 1 \/ t < Tabled!End(k))
  BY <1>1, <1>5, <1>6
<1> QED
  BY <1>6, <1>7 DEF n, k

(* The rest of a division, of a number in a multiple of the divisor.       *)
LEMMA Remainder ==
    ASSUME NEW k \in Nat \ {0}, NEW r \in 0 .. k - 1, NEW n \in Int
    PROVE  (r + n * k) % k = r
<1> DEFINE a == r + n * k
           d == a \div k
<1>1. a \in Int
  OBVIOUS
<1>2. d \in Int /\ d * k <= a /\ a < d * k + k /\ a % k = a - d * k
  <2> HIDE DEF a
  <2>1. a % k = a - (a \div k) * k
    BY <1>1
  <2> QED
    BY <1>1, <2>1, Division
<1>3. d * k \in Int /\ n * k \in Int
  BY <1>2
<1> HIDE DEF d
<1>4. n = d
  <2>1. ASSUME n < d PROVE FALSE
    <3>1. n * k + k <= d * k
      BY <2>1, <1>2, Products
    <3> QED
      BY <3>1, <1>2, <1>3
  <2>2. ASSUME d < n PROVE FALSE
    <3>1. d * k + k <= n * k
      BY <2>2, <1>2, Products
    <3> QED
      BY <3>1, <1>2, <1>3
  <2> QED
    BY <2>1, <2>2, <1>2
<1> QED
  BY <1>2, <1>3, <1>4

----------------------------------------------------------------------------
(* Where a table is, from an event at the time t to the one it registered, *)
(* e: before its start; of one entry; or in an interval that has not ended *)
(* and that follows one which has.  Its offset is a number of periods      *)
(* after the start, if it has a period, and its time then within a unit of *)
(* the first one.                                                          *)

InPeriod(t, o) ==
    IF expoType = 2
    THEN /\ \E n \in Int : o = startTime + n * (u[Len(u)] - u[1])
         /\ u[1] - 1 <= t - o
    ELSE o = startTime

BeforeIt(t, e, i, p, o) ==
    /\ Len(u) > 1 /\ t < Tabled!Limit(startTime)
    /\ e = startTime /\ i = 1 /\ p = 1 /\ InPeriod(t, o)

OfOne(t, e, i, p) ==
    /\ Len(u) = 1 /\ t >= Tabled!Limit(startTime)
    /\ e = Never /\ i = 1 /\ p = 0

InInterval(t, e, i, p, o) ==
    /\ Len(u) > 1 /\ t >= Tabled!Limit(startTime)
    /\ i \in 1 .. Len(u) - 1
    /\ i = Len(u) - 1 \/ t - o < Tabled!End(i)
    /\ i > 1 => t - o >= Tabled!End(i - 1)
    /\ InPeriod(t, o) /\ (expoType = 2 => t - o <= u[Len(u)] - 1)
    /\ p = Tabled!PointIn(t - o) /\ e = Tabled!EventIn(i, t - o, o)

Placed(t, e, i, p, o) ==
    /\ t \in 0 .. TableHorizon /\ o \in Int
    /\ BeforeIt(t, e, i, p, o) \/ OfOne(t, e, i, p) \/ InInterval(t, e, i, p, o)

(* The table and a saved state of it are in place. *)
TableInv ==
    /\ TableOK
    /\ Placed(now, NextTimeEvent, last, ipoPoint, t_offset)
    /\ \A s \in saved : Placed(s.time, s.NextTimeEvent, s.at[1], s.at[2], s.at[3])

(* A time that is an offset after one of the first period is at the same   *)
(* place of the table.                                                     *)
LEMMA PeriodIs ==
    ASSUME TableOK, Len(u) > 1, expoType = 2, NEW o \in Int, NEW n \in Int,
           o = startTime + n * (u[Len(u)] - u[1]),
           NEW s \in Int, u[1] <= s - o, s - o < u[Len(u)]
    PROVE  (s - startTime - u[1]) % (u[Len(u)] - u[1]) = s - o - u[1]
<1> DEFINE k == u[Len(u)] - u[1]
           r == s - o - u[1]
<1>1. /\ k \in Nat \ {0} /\ startTime \in Int /\ u[1] \in Int
  <2> DEFINE x == u[1]
             y == u[Len(u)]
  <2>1. x \in Int /\ y \in Int /\ startTime \in Int
    BY TableIs
  <2>2. y > x
    BY DEF TableOK
  <2> HIDE DEF x, y
  <2>3. y - x \in Nat \ {0}
    BY <2>1, <2>2
  <2> QED
    BY <2>1, <2>3 DEF x, y
<1>2. r \in 0 .. k - 1
  <2> DEFINE x == u[1]
             y == u[Len(u)]
  <2>1. x \in Int /\ y \in Int /\ x <= s - o /\ s - o < y
    BY TableIs
  <2> HIDE DEF x, y
  <2>2. s - o - x \in 0 .. (y - x) - 1
    BY <2>1
  <2> QED
    BY <2>2 DEF x, y
<1>3. s - startTime - u[1] = r + n * k
  <2>1. n * k \in Int /\ o = startTime + n * k
    BY <1>1
  <2> DEFINE x == n * k
  <2>2. x \in Int /\ o = startTime + x
    BY <2>1
  <2> HIDE DEF x
  <2> QED
    BY <2>2, <1>1 DEF x
<1> HIDE DEF k, r
<1>4. (r + n * k) % k = r
  BY <1>1, <1>2, Remainder
<1> QED
  BY <1>3, <1>4 DEF k, r

(* What is registered is ahead.                                            *)
LEMMA EventAhead ==
    ASSUME TableOK, NEW t, NEW e, NEW i, NEW p, NEW o, Placed(t, e, i, p, o)
    PROVE  e \in Int /\ e > t /\ e \in 0 .. Never /\ i \in 1 .. Len(u) /\ p \in 0 .. 3
<1>1. t \in Int /\ t \in 0 .. TableHorizon /\ o \in Int
  BY TableIs DEF Placed
<1>2. /\ startTime \in Int /\ startTime <= Never /\ Len(u) \in Nat \ {0}
      /\ u[1] \in Int /\ u[Len(u)] \in Int /\ u[1] <= u[Len(u)]
      /\ TableHorizon + (u[Len(u)] - u[1]) < Never /\ startTime + u[Len(u)] <= Never
      /\ TableHorizon \in Nat /\ Never \in Nat /\ TableHorizon < Never
  BY TableIs
<1>3. CASE BeforeIt(t, e, i, p, o)
  <2>1. t < startTime
    <3>1. Tabled!Limit(startTime) \in Int /\ Tabled!Limit(startTime) <= startTime
      BY <1>2, LimitIs
    <3> QED
      BY <3>1, <1>1, <1>2, <1>3 DEF BeforeIt
  <2> QED
    BY <2>1, <1>1, <1>2, <1>3 DEF BeforeIt
<1>4. CASE OfOne(t, e, i, p)
  BY <1>1, <1>2, <1>4 DEF OfOne
<1>5. CASE InInterval(t, e, i, p, o)
  <2> DEFINE a == u[i + 1]
             tt == t - o
             lo == u[1]
             hi == u[Len(u)]
  <2>1. i \in 1 .. Len(u) - 1 /\ Len(u) > 1
    BY <1>5 DEF InInterval
  <2>2. /\ a \in Int /\ lo <= a /\ a <= hi
        /\ Tabled!End(i) \in Int /\ Tabled!End(i) <= a
        /\ Tabled!End(i) <= Tabled!Limit(a)
        /\ u[i] <= a /\ u[i] \in Int /\ lo <= u[i]
    BY <2>1, EndIs
  <2>3. /\ lo \in Int /\ hi \in Int /\ tt \in Int
        /\ Tabled!Limit(lo) \in Int /\ Tabled!Limit(lo) <= lo
        /\ Tabled!Limit(hi) \in Int /\ Tabled!Limit(hi) <= hi
        /\ hi # 0 => Tabled!Limit(hi) = hi - 1
    <3>1. lo \in Int /\ hi \in Int /\ tt \in Int
      BY <1>1, <1>2
    <3> HIDE DEF lo, hi, tt
    <3> QED
      BY <3>1, LimitIs
  <2>4. /\ e = CASE expoType = 0 /\ tt < Tabled!Limit(lo) -> o + lo
                 [] expoType = 0 /\ tt > Tabled!Limit(hi) -> Never
                 [] expoType = 1 /\ tt > Tabled!Limit(hi) -> Never
                 [] OTHER -> o + a
        /\ p = CASE expoType = 0 /\ tt < Tabled!Limit(lo) -> 2
                 [] expoType = 0 /\ ~(tt < Tabled!Limit(lo)) /\ tt > Tabled!Limit(hi) -> 3
                 [] OTHER -> 0
    BY <1>5 DEF InInterval, Tabled!EventIn, Tabled!PointIn, Tabled!tmin, Tabled!tmax, Tabled!nt1
  <2>5. /\ i = Len(u) - 1 \/ tt < Tabled!End(i)
        /\ i = Len(u) - 1 => a = hi
        /\ expoType = 2 => tt <= hi - 1 /\ lo - 1 <= tt
        /\ expoType # 2 => o = startTime /\ hi # 0
        /\ expoType \in 0 .. 2
    BY <1>2, <1>5 DEF InInterval, InPeriod, TableOK
  <2> HIDE DEF a, tt, lo, hi
  <2>6. p \in 0 .. 3
    BY <2>4
  <2>7. /\ e = Never \/ (e = o + lo /\ expoType = 0 /\ tt < Tabled!Limit(lo))
             \/ (e = o + a /\ (expoType = 2 \/ tt <= Tabled!Limit(hi)))
    <3>1. CASE expoType = 0 /\ tt < Tabled!Limit(lo)
      BY <3>1, <2>4
    <3>2. CASE expoType = 0 /\ ~(tt < Tabled!Limit(lo)) /\ tt > Tabled!Limit(hi)
      BY <3>2, <2>4
    <3>3. CASE expoType = 1 /\ tt > Tabled!Limit(hi)
      BY <3>3, <2>4
    <3>4. CASE /\ ~(expoType = 0 /\ tt < Tabled!Limit(lo))
               /\ ~(expoType = 0 /\ tt > Tabled!Limit(hi))
               /\ ~(expoType = 1 /\ tt > Tabled!Limit(hi))
      <4>1. e = o + a
        BY <3>4, <2>4
      <4>2. expoType = 2 \/ tt <= Tabled!Limit(hi)
        BY <3>4, <2>3, <2>5
      <4> QED
        BY <4>1, <4>2
    <3> QED
      BY <3>1, <3>2, <3>3, <3>4
  <2>8. t = o + tt
    BY <1>1 DEF tt
  <2>9. CASE e = Never
    BY <2>9, <2>1, <2>6, <1>1, <1>2
  <2>10. CASE e = o + lo /\ expoType = 0 /\ tt < Tabled!Limit(lo)
    <3>1. e > t /\ e \in Int
      BY <2>10, <2>3, <2>8, <1>1
    <3>2. e <= Never
      BY <2>10, <2>3, <2>5, <1>1, <1>2 DEF lo
    <3> QED
      BY <3>1, <3>2, <2>1, <2>6, <1>1, <1>2
  <2>11. CASE e = o + a /\ (expoType = 2 \/ tt <= Tabled!Limit(hi))
    <3>1. tt < a
      <4>1. CASE i = Len(u) - 1
        BY <4>1, <2>2, <2>3, <2>5, <2>11
      <4>2. CASE tt < Tabled!End(i)
        BY <4>2, <2>2, <2>3
      <4> QED
        BY <4>1, <4>2, <2>5
    <3>2. e > t /\ e \in Int
      BY <3>1, <2>2, <2>3, <2>8, <2>11, <1>1
    <3>3. e <= Never
      <4>1. CASE expoType = 2
        <5>1. hi - lo + TableHorizon < Never /\ lo \in Int /\ hi \in Int
          BY <1>2 DEF hi, lo
        <5> QED
          BY <5>1, <4>1, <2>2, <2>3, <2>5, <2>8, <2>11, <1>1, <1>2
      <4>2. CASE expoType # 2
        BY <4>2, <2>2, <2>3, <2>5, <2>11, <1>1, <1>2 DEF hi
      <4> QED
        BY <4>1, <4>2
    <3> QED
      BY <3>2, <3>3, <2>1, <2>6, <1>1, <1>2
  <2> QED
    BY <2>7, <2>9, <2>10, <2>11
<1> QED
  BY <1>3, <1>4, <1>5 DEF Placed

----------------------------------------------------------------------------
(* On the piece.                                                           *)

(* The interval that a time of the table is in.                            *)
LEMMA NearestIs ==
    ASSUME TableOK, Len(u) > 1, NEW i \in 1 .. Len(u) - 1, NEW x \in Int,
           i > 1 => u[i] <= x, i < Len(u) - 1 => x < u[i + 1]
    PROVE  Tabled!Max({1} \cup {j \in 1 .. Len(u) - 1 : u[j] <= x}) = i
<1> DEFINE S == {1} \cup {j \in 1 .. Len(u) - 1 : u[j] <= x}
<1>1. Len(u) \in Nat /\ 1 \in 1 .. Len(u) - 1
  BY TableIs
<1>2. i \in S /\ S \subseteq Int
  BY <1>1
<1>3. \A j \in S : i >= j
  <2> SUFFICES ASSUME NEW j \in 1 .. Len(u) - 1, u[j] <= x, j > i PROVE FALSE
    BY <1>1
  <2>1. i + 1 \in 1 .. Len(u) /\ j \in 1 .. Len(u) /\ i + 1 <= j /\ i < Len(u) - 1
    BY <1>1
  <2>2. u[i + 1] <= u[j] /\ u[i + 1] \in Int /\ u[j] \in Int
    BY <2>1, TableIs
  <2> QED
    BY <2>1, <2>2
<1> HIDE DEF S
<1>4. \E z \in S : \A y \in S : z >= y
  BY <1>2, <1>3
<1>5. Tabled!Max(S) = CHOOSE z \in S : \A y \in S : z >= y
  BY DEF Tabled!Max
<1>6. Tabled!Max(S) \in S /\ \A y \in S : Tabled!Max(S) >= y
  BY <1>4, <1>5
<1>7. Tabled!Max(S) = i
  <2>1. Tabled!Max(S) \in Int /\ i >= Tabled!Max(S) /\ Tabled!Max(S) >= i
    BY <1>2, <1>3, <1>6
  <2> QED
    BY <2>1
<1> QED
  BY <1>7 DEF S

(* The line of an interval is on one piece wherever the time is.           *)
LEMMA LinesAgree ==
    ASSUME NEW i, NEW x \in Int, NEW y \in Int, x - y \in -2 .. 2
    PROVE  LET p == Tabled!Line(i, x)
               q == Tabled!Line(i, y)
           IN  /\ p[1] = q[1] /\ p[2] = q[2] /\ p[1] # "before"
               /\ p[1] = "line" => p[3] - q[3] \in -2 .. 2
BY DEF Tabled!Line

(* The pieces near a time.                                                 *)
LEMMA NearIs ==
    ASSUME TableOK, NEW t \in Int
    PROVE  /\ t < startTime => <<"before">> \in Tabled!Near(t)
           /\ t >= startTime - 2 => \A s \in t - 2 .. t + 2 : Tabled!Started(s) \in Tabled!Near(t)
           /\ \A s \in t - 2 .. t + 2 :
                expoType = 2 /\ u[Len(u)] > u[1] /\ (s - startTime - u[1]) % (u[Len(u)] - u[1]) = 0 =>
                  Tabled!Line(Len(u) - 1, u[Len(u)]) \in Tabled!Near(t)
<1> DEFINE around == t - 2 .. t + 2
           ends   == {s \in around : expoType = 2 /\ Tabled!T > 0 /\ (s - startTime - Tabled!tmin) % Tabled!T = 0}
           A == {Tabled!Started(s) : s \in IF t < startTime - 2 THEN {} ELSE around}
           B == {<<"before">> : s \in {s \in around : s < startTime}}
           C == {Tabled!Line(Tabled!nt1 - 1, Tabled!tmax) : s \in ends}
<1>1. startTime \in Int /\ u[1] \in Int /\ u[Len(u)] \in Int /\ t \in around
  BY TableIs
<1>2. Tabled!Near(t) = A \cup B \cup C
  BY DEF Tabled!Near
<1>3. t < startTime => <<"before">> \in B
  BY <1>1
<1>4. t >= startTime - 2 => \A s \in around : Tabled!Started(s) \in A
  BY <1>1
<1>5. ASSUME NEW s \in around, expoType = 2, u[Len(u)] > u[1],
             (s - startTime - u[1]) % (u[Len(u)] - u[1]) = 0
      PROVE  Tabled!Line(Len(u) - 1, u[Len(u)]) \in C
  <2>1. Tabled!T = u[Len(u)] - u[1] /\ Tabled!tmin = u[1] /\ Tabled!nt1 = Len(u) /\ Tabled!tmax = u[Len(u)]
    BY DEF Tabled!T, Tabled!tmin, Tabled!tmax, Tabled!nt1
  <2>2. s \in ends
    BY <1>1, <1>5, <2>1
  <2> QED
    BY <2>1, <2>2
<1> QED
  BY <1>2, <1>3, <1>4, <1>5

(* What the table is to be evaluated on, when it has started.              *)
LEMMA StartedIs ==
    ASSUME TableOK, Len(u) > 1, NEW s \in Int, NEW x \in Int,
           \/ expoType # 2 /\ x = s - startTime
           \/ expoType = 2 /\ x = u[1] + ((s - startTime - u[1]) % (u[Len(u)] - u[1]))
    PROVE  /\ expoType = 0 /\ x < u[1] => Tabled!Started(s) = <<"value", 1>>
           /\ expoType = 0 /\ x >= u[Len(u)] => Tabled!Started(s) = <<"value", Len(u)>>
           /\ expoType # 0 \/ (u[1] <= x /\ x < u[Len(u)]) =>
                \A i \in 1 .. Len(u) - 1 :
                  (i > 1 => u[i] <= x) /\ (i < Len(u) - 1 => x < u[i + 1]) =>
                     Tabled!Started(s) = Tabled!Line(i, x)
<1>1. /\ Len(u) \in Nat /\ u[1] \in Int /\ u[Len(u)] \in Int /\ u[1] <= u[Len(u)]
      /\ expoType = 2 => u[Len(u)] - u[1] > 0
  BY TableIs DEF TableOK
<1> DEFINE tt == IF expoType = 2 /\ u[Len(u)] - u[1] > 0
                 THEN u[1] + ((s - startTime - u[1]) % (u[Len(u)] - u[1])) ELSE s - startTime
           m == Tabled!Max({1} \cup {j \in 1 .. Len(u) - 1 : u[j] <= x})
           n == Len(u)  a == u[1]  b == u[n]
<1>2. tt = x
  BY <1>1
<1>3. Tabled!Started(s) =
        CASE n = 1 \/ (expoType = 0 /\ tt < a) -> <<"value", 1>>
          [] n > 1 /\ expoType = 0 /\ tt >= b -> <<"value", n>>
          [] OTHER -> Tabled!Line(Tabled!Max({1} \cup {j \in 1 .. n - 1 : u[j] <= tt}), tt)
  BY DEF Tabled!Started, Tabled!T, Tabled!tmin, Tabled!tmax, Tabled!nt1
<1> HIDE DEF tt
<1>4. Tabled!Started(s) =
        CASE n = 1 \/ (expoType = 0 /\ x < a) -> <<"value", 1>>
          [] n > 1 /\ expoType = 0 /\ x >= b -> <<"value", n>>
          [] OTHER -> Tabled!Line(m, x)
  BY <1>2, <1>3
<1>5. \A i \in 1 .. n - 1 : (i > 1 => u[i] <= x) /\ (i < n - 1 => x < u[i + 1]) => m = i
  BY NearestIs
<1> HIDE DEF m
<1>6. n > 1 /\ n # 1 /\ a \in Int /\ b \in Int /\ a <= b
  BY <1>1
<1> HIDE DEF n, a, b
<1>7. expoType = 0 /\ x < a => Tabled!Started(s) = <<"value", 1>>
  BY <1>4, <1>6
<1>8. expoType = 0 /\ x >= b => Tabled!Started(s) = <<"value", n>>
  BY <1>4, <1>6
<1>9. expoType # 0 \/ (a <= x /\ x < b) => Tabled!Started(s) = Tabled!Line(m, x)
  BY <1>4, <1>6
<1> QED
  BY <1>5, <1>7, <1>8, <1>9 DEF n, a, b

(* From an event to the next one, the table is on the piece its time is    *)
(* in, but for the tolerance at its ends.                                  *)
LEMMA PieceIs ==
    ASSUME TableInv, NEW t \in Int, now <= t, t < NextTimeEvent
    PROVE  Tabled!OnPiece(t)
<1> DEFINE o == t_offset
           i == last
           n == Len(u)
           lo == u[1]
           hi == u[n]
           On(p) == /\ p[1] = Tabled!Used(t)[1]
                    /\ p[1] # "before" => p[2] = Tabled!Used(t)[2]
                    /\ p[1] = "line" => p[3] - Tabled!Used(t)[3] \in -2 .. 2
<1>1. SUFFICES \E p \in Tabled!Near(t) : On(p)
  BY DEF Tabled!OnPiece
<1>2. TableOK /\ Placed(now, NextTimeEvent, i, ipoPoint, o)
  BY DEF TableInv
<1>3. now \in Int /\ o \in Int /\ NextTimeEvent \in Int
  <2>1. now \in 0 .. TableHorizon /\ o \in Int /\ TableHorizon \in Nat
    BY <1>2, TableIs DEF Placed
  <2>2. NextTimeEvent \in Int
    <3> HIDE DEF o, i
    <3> QED
      BY <1>2, EventAhead
  <2> QED
    BY <2>1, <2>2
<1>4. /\ n \in Nat \ {0} /\ startTime \in Int /\ lo \in Int /\ hi \in Int /\ lo <= hi
      /\ Tabled!Limit(startTime) \in Int /\ startTime - 1 <= Tabled!Limit(startTime)
      /\ Tabled!Limit(startTime) <= startTime
  BY <1>2, TableIs, LimitIs
<1>5. Tabled!Used(t) =
        CASE ipoPoint = 1 -> <<"before">>
          [] ipoPoint # 1 /\ (ipoPoint = 2 \/ n = 1) -> <<"value", 1>>
          [] ipoPoint = 3 /\ n > 1 -> <<"value", n>>
          [] OTHER -> Tabled!Line(i, t - o)
  BY DEF Tabled!Used, Tabled!nt1
<1>6. CASE BeforeIt(now, NextTimeEvent, i, ipoPoint, o)
  <2>1. Tabled!Used(t) = <<"before">> /\ t < startTime
    BY <1>5, <1>6 DEF BeforeIt
  <2>2. <<"before">> \in Tabled!Near(t)
    BY <2>1, <1>2, NearIs
  <2>3. On(<<"before">>)
    BY <2>1
  <2> QED
    BY <2>2, <2>3
<1>7. CASE OfOne(now, NextTimeEvent, i, ipoPoint)
  <2>1. n = 1 /\ ipoPoint = 0 /\ now >= Tabled!Limit(startTime)
    BY <1>7 DEF OfOne
  <2>2. Tabled!Used(t) = <<"value", 1>>
    BY <2>1, <1>5
  <2>3. Tabled!Started(t) = <<"value", 1>>
    BY <2>1 DEF Tabled!Started, Tabled!nt1
  <2>4. t >= startTime - 2 /\ t \in t - 2 .. t + 2
    BY <2>1, <1>3, <1>4
  <2>5. Tabled!Started(t) \in Tabled!Near(t)
    BY <2>4, <1>2, NearIs
  <2>6. On(Tabled!Started(t))
    BY <2>2, <2>3
  <2> QED
    BY <2>5, <2>6
<1>8. CASE InInterval(now, NextTimeEvent, i, ipoPoint, o)
  <2> DEFINE x == t - o
             tt == now - o
             a == u[i]
             b == u[i + 1]
  <2>1. /\ n > 1 /\ now >= Tabled!Limit(startTime) /\ i \in 1 .. n - 1
        /\ i = n - 1 \/ tt < Tabled!End(i)
        /\ i > 1 => tt >= Tabled!End(i - 1)
        /\ InPeriod(now, o) /\ (expoType = 2 => tt <= hi - 1)
        /\ ipoPoint = Tabled!PointIn(tt) /\ NextTimeEvent = Tabled!EventIn(i, tt, o)
        /\ expoType \in 0 .. 2 /\ (expoType # 2 => hi # 0) /\ (expoType = 2 => hi > lo)
    BY <1>2, <1>8 DEF InInterval, TableOK
  <2>2. /\ NextTimeEvent =
             CASE expoType = 0 /\ tt < Tabled!Limit(lo) -> o + lo
               [] expoType = 0 /\ tt > Tabled!Limit(hi) -> Never
               [] expoType = 1 /\ tt > Tabled!Limit(hi) -> Never
               [] OTHER -> o + b
        /\ ipoPoint =
             CASE expoType = 0 /\ tt < Tabled!Limit(lo) -> 2
               [] expoType = 0 /\ ~(tt < Tabled!Limit(lo)) /\ tt > Tabled!Limit(hi) -> 3
               [] OTHER -> 0
    BY <2>1 DEF Tabled!EventIn, Tabled!PointIn, Tabled!tmin, Tabled!tmax, Tabled!nt1
  <2>3. x \in Int /\ tt \in Int /\ tt <= x /\ t >= startTime - 2
    BY <1>3, <1>4, <2>1
  <2>0. /\ x = t - o /\ \A y \in Int : y + o \in Int /\ (y + o) - o = y /\ (y - x \in 0 .. 2 => y + o \in t - 2 .. t + 2)
    BY <1>3
  <2>4. /\ a \in Int /\ b \in Int /\ a <= b /\ lo <= a /\ b <= hi
        /\ Tabled!End(i) \in Int /\ Tabled!End(i) <= Tabled!Limit(b) /\ Tabled!End(i) <= b
        /\ expoType # 2 => Tabled!End(i) = Tabled!Limit(b)
        /\ expoType = 2 => Tabled!End(i) = Tabled!Limit(b) - 1
    BY <1>2, <2>1, EndIs
  <2>5. i > 1 => /\ Tabled!End(i - 1) \in Int /\ a - 2 <= Tabled!End(i - 1)
                 /\ expoType # 2 => Tabled!End(i - 1) = Tabled!Limit(a)
                 /\ expoType = 2 => Tabled!End(i - 1) = Tabled!Limit(a) - 1
    <3> SUFFICES ASSUME i > 1
                 PROVE /\ Tabled!End(i - 1) \in Int /\ a - 2 <= Tabled!End(i - 1)
                       /\ expoType # 2 => Tabled!End(i - 1) = Tabled!Limit(a)
                       /\ expoType = 2 => Tabled!End(i - 1) = Tabled!Limit(a) - 1
      OBVIOUS
    <3>1. i - 1 \in 1 .. Len(u) - 1 /\ (i - 1) + 1 = i
      BY <2>1, <1>4
    <3> QED
      BY <3>1, <1>2, EndIs
  <2>6. /\ Tabled!Limit(a) \in Int /\ Tabled!Limit(b) \in Int /\ Tabled!Limit(lo) \in Int /\ Tabled!Limit(hi) \in Int
        /\ lo - 1 <= Tabled!Limit(lo) /\ Tabled!Limit(lo) <= lo
        /\ Tabled!Limit(b) <= Tabled!Limit(hi) /\ hi - 1 <= Tabled!Limit(hi)
        /\ Tabled!Limit(hi) <= hi /\ Tabled!Limit(lo) <= Tabled!Limit(hi)
        /\ hi # 0 => Tabled!Limit(hi) = hi - 1
    BY <1>4, <2>4, LimitIs
  <2>7. /\ expoType # 2 => o = startTime
        /\ expoType = 2 => lo - 1 <= tt /\ \E m \in Int : o = startTime + m * (hi - lo)
    BY <2>1 DEF InPeriod
  <2>8. /\ i = n - 1 => b = hi
        /\ i = 1 => a = lo
        /\ 1 <= i /\ i <= n - 1 /\ i \in Int
    BY <2>1, <1>4
  <2> DEFINE Old == expoType = 0 /\ tt < Tabled!Limit(lo)
             Past2 == expoType = 0 /\ ~(tt < Tabled!Limit(lo)) /\ tt > Tabled!Limit(hi)
  <2>20. ASSUME NEW y \in Int, y - x \in 0 .. 2, ipoPoint = 0,
                i > 1 => a <= y, i < n - 1 => y < b,
                expoType # 1 => lo <= y /\ y < hi
         PROVE  \E p \in Tabled!Near(t) : On(p)
    <3> DEFINE s == y + o
    <3>1. s \in Int /\ s - o = y /\ s \in t - 2 .. t + 2
      BY <2>20, <2>0
    <3>2. Tabled!Started(s) \in Tabled!Near(t)
      BY <3>1, <1>2, <2>3, NearIs
    <3>3. \/ expoType # 2 /\ y = s - startTime
          \/ expoType = 2 /\ y = lo + ((s - startTime - lo) % (hi - lo))
      <4>1. CASE expoType # 2
        BY <4>1, <3>1, <2>7
      <4>2. CASE expoType = 2
        <5>1. PICK m \in Int : o = startTime + m * (hi - lo)
          BY <4>2, <2>7
        <5>2. lo <= s - o /\ s - o < hi
          BY <4>2, <3>1, <2>20
        <5> HIDE DEF s, o
        <5>3. (s - startTime - lo) % (hi - lo) = s - o - lo
          BY <5>1, <5>2, <4>2, <3>1, <1>2, <1>3, <2>1, PeriodIs
        <5> QED
          BY <5>3, <4>2, <3>1, <1>3, <1>4
      <4> QED
        BY <4>1, <4>2
    <3>4. Tabled!Started(s) = Tabled!Line(i, y)
      <4> HIDE DEF s
      <4>1. \A k \in 1 .. Len(u) - 1 :
                  (k > 1 => u[k] <= y) /\ (k < Len(u) - 1 => y < u[k + 1]) =>
                     Tabled!Started(s) = Tabled!Line(k, y)
        <5>1. expoType # 0 \/ (u[1] <= y /\ y < u[Len(u)])
          BY <2>20
        <5>2. Len(u) > 1
          BY <2>1
        <5> QED
          BY <5>1, <5>2, <3>1, <3>3, <1>2, StartedIs
      <4> QED
        BY <4>1, <2>1, <2>20
    <3>5. Tabled!Used(t) = Tabled!Line(i, x)
      BY <1>5, <2>1, <2>20
    <3>6. y - x \in -2 .. 2
      BY <2>3, <2>20
    <3>7. On(Tabled!Line(i, y))
      <4> HIDE DEF x, i
      <4> QED
        BY <3>5, <3>6, <2>3, LinesAgree
    <3> QED
      BY <3>2, <3>4, <3>7
  <2>9. CASE Old
    <3>1. ipoPoint = 2 /\ NextTimeEvent = o + lo
      <4> HIDE DEF tt, b, hi, n, i, o, lo
      <4> QED
        BY <2>2, <2>3, <2>6, <2>9
    <3>2. x < lo /\ o = startTime /\ x = t - startTime
      BY <3>1, <1>3, <1>4, <2>1, <2>7, <2>9
    <3>3. Tabled!Started(t) = <<"value", 1>>
      <4>1. /\ expoType = 0 /\ x < u[1] /\ Len(u) > 1 /\ t \in Int
            /\ x \in Int /\ expoType # 2 /\ x = t - startTime
        BY <3>2, <2>1, <2>3, <2>9
      <4> HIDE DEF x
      <4> QED
        BY <4>1, <1>2, StartedIs
    <3>4. Tabled!Used(t) = <<"value", 1>>
      BY <3>1, <1>5
    <3>5. t \in t - 2 .. t + 2
      OBVIOUS
    <3>6. Tabled!Started(t) \in Tabled!Near(t)
      BY <3>5, <1>2, <2>3, NearIs
    <3>7. On(Tabled!Started(t))
      BY <3>3, <3>4
    <3> QED
      BY <3>6, <3>7
  <2>10. CASE Past2
    <3>1. ipoPoint = 3
      BY <2>2, <2>10
    <3>2. x >= hi /\ x = t - startTime
      <4>1. expoType = 0 /\ tt > Tabled!Limit(hi)
        BY <2>10
      <4>2. o = startTime
        BY <2>7, <4>1
      <4>3. hi \in Int /\ Tabled!Limit(hi) \in Int /\ hi - 1 <= Tabled!Limit(hi)
        BY <1>4, <2>6
      <4>4. x \in Int /\ tt \in Int /\ tt <= x
        BY <2>3
      <4>5. x = t - startTime
        BY <4>2
      <4> HIDE DEF x, tt, hi
      <4> QED
        BY <4>1, <4>3, <4>4, <4>5
    <3>3. Tabled!Started(t) = <<"value", n>>
      <4>1. /\ expoType = 0 /\ x >= u[Len(u)] /\ Len(u) > 1 /\ t \in Int
            /\ x \in Int /\ expoType # 2 /\ x = t - startTime
        BY <3>2, <2>1, <2>3, <2>10
      <4> HIDE DEF x
      <4> QED
        BY <4>1, <1>2, StartedIs
    <3>4. Tabled!Used(t) = <<"value", n>>
      BY <3>1, <1>5, <2>1
    <3>5. t \in t - 2 .. t + 2
      OBVIOUS
    <3>6. Tabled!Started(t) \in Tabled!Near(t)
      BY <3>5, <1>2, <2>3, NearIs
    <3>7. On(Tabled!Started(t))
      BY <3>3, <3>4
    <3> QED
      BY <3>6, <3>7
  <2>11. CASE ~Old /\ ~Past2
    <3>1. ipoPoint = 0
      BY <2>2, <2>11
    <3>2. \/ expoType = 1 /\ tt > Tabled!Limit(hi) /\ i = n - 1
          \/ x < b /\ (expoType # 2 => tt <= Tabled!Limit(hi))
      <4>1. CASE expoType = 1 /\ tt > Tabled!Limit(hi)
        <5> HIDE DEF tt, b, hi, n, i
        <5> QED
          BY <4>1, <2>1, <2>3, <2>4, <2>6
      <4>2. CASE ~(expoType = 1 /\ tt > Tabled!Limit(hi))
        <5>1. NextTimeEvent = o + b
          <6> HIDE DEF tt, b, hi, n, i, o, lo
          <6> QED
            BY <4>2, <2>2, <2>11
        <5>2. x < b
          BY <5>1, <1>3, <2>3, <2>4
        <5>3. expoType # 2 => tt <= Tabled!Limit(hi)
          <6> HIDE DEF tt, b, hi, n, i, o, lo
          <6> QED
            BY <4>2, <2>1, <2>3, <2>6, <2>11
        <5> QED
          BY <5>2, <5>3
      <4> QED
        BY <4>1, <4>2
    <3>3. expoType = 0 => tt >= Tabled!Limit(lo)
      <4> HIDE DEF tt, lo
      <4> QED
        BY <2>3, <2>6, <2>11
    <3> DEFINE y == IF x < a /\ (i > 1 \/ expoType # 1) THEN a ELSE x
    <3>4. CASE expoType # 1 /\ i = n - 1 /\ a = hi
      <4> DEFINE q == Tabled!Line(i, x)
      <4>1. a = b
        BY <3>4, <2>8
      <4>2. Tabled!Used(t) = q
        BY <3>1, <1>5, <2>1
      <4>3. q = <<"value", n>> /\ Tabled!Line(n - 1, hi) = <<"value", n>>
        <5>1. a >= Tabled!Limit(b) /\ i + 1 = n
          BY <4>1, <3>4, <2>4, <2>6, <2>8, <1>4, LimitIs
        <5>2. \A z : Tabled!Line(i, z) = <<"value", i + 1>>
          BY <5>1 DEF Tabled!Line
        <5> QED
          BY <5>1, <5>2, <3>4
      <4>4. hi - x \in 0 .. 2
        <5>1. x < hi
          BY <4>1, <3>2, <3>4
        <5>2. hi - 2 <= tt
          <6> HIDE DEF tt, a, b, hi, n, i, lo
          <6> QED
            BY <3>3, <3>4, <2>1, <2>3, <2>4, <2>5, <2>6, <2>7, <2>8, <1>4
        <5>3. x \in Int /\ tt \in Int /\ tt <= x /\ hi \in Int
          BY <2>3, <1>4
        <5> HIDE DEF x, tt, hi
        <5> QED
          BY <5>1, <5>2, <5>3
      <4> DEFINE s == hi + o
      <4>5. s \in Int /\ s - o = hi /\ s \in t - 2 .. t + 2
        BY <4>4, <2>0, <1>4
      <4>6. CASE expoType = 0
        <5>1. Tabled!Started(s) = <<"value", n>>
          <6>1. hi = s - startTime /\ expoType # 2
            BY <4>5, <4>6, <2>7
          <6> HIDE DEF s
          <6>2. hi \in Int /\ Len(u) > 1 /\ hi >= u[Len(u)]
            BY <1>4, <2>1
          <6> QED
            BY <6>1, <6>2, <4>5, <4>6, <1>2, StartedIs
        <5>2. Tabled!Started(s) \in Tabled!Near(t)
          <6> HIDE DEF s
          <6> QED
            BY <4>5, <1>2, <2>3, NearIs
        <5>3. On(Tabled!Started(s))
          BY <5>1, <4>2, <4>3
        <5> QED
          BY <5>2, <5>3
      <4>7. CASE expoType = 2
        <5>1. PICK m \in Int : o = startTime + m * (hi - lo)
          BY <4>7, <2>7
        <5> DEFINE k == hi - lo
        <5>2. k \in Nat \ {0}
          BY <4>7, <1>4, <2>1
        <5>3. s - startTime - lo = 0 + (m + 1) * k
          <6>1. (m + 1) * k = m * k + k /\ m * k \in Int
            BY <5>2
          <6> DEFINE w == m * k
          <6>2. w \in Int /\ (m + 1) * k = w + k /\ o = startTime + w
            BY <6>1, <5>1
          <6> HIDE DEF w
          <6> QED
            BY <6>2, <1>4
        <5>4. (0 + (m + 1) * k) % k = 0
          <6> HIDE DEF k
          <6>1. 0 \in 0 .. k - 1 /\ m + 1 \in Int
            BY <5>2
          <6> QED
            BY <6>1, <5>2, Remainder
        <5>5. (s - startTime - lo) % (hi - lo) = 0
          BY <5>3, <5>4
        <5> HIDE DEF s
        <5>6. Tabled!Line(n - 1, hi) \in Tabled!Near(t)
          BY <5>5, <4>5, <4>7, <1>2, <2>1, NearIs
        <5>7. On(Tabled!Line(n - 1, hi))
          BY <4>2, <4>3
        <5> QED
          BY <5>6, <5>7
      <4> QED
        BY <4>6, <4>7, <3>4, <2>1
    <3>5. CASE ~(expoType # 1 /\ i = n - 1 /\ a = hi)
      <4>1. y \in Int /\ y - x \in 0 .. 2
        <5>1. x \in Int /\ tt \in Int /\ tt <= x /\ a \in Int
          BY <2>3, <2>4
        <5>2. i > 1 => a - 2 <= tt
          <6>1. i > 1 => tt >= Tabled!End(i - 1) /\ Tabled!End(i - 1) \in Int /\ a - 2 <= Tabled!End(i - 1)
            BY <2>1, <2>5
          <6> HIDE DEF tt, a, i
          <6> QED
            BY <6>1, <5>1
        <5>3. i = 1 /\ expoType # 1 => a - 2 <= tt
          <6>1. i = 1 => a = lo
            BY <2>8
          <6>2. expoType # 1 => tt >= lo - 1
            <7> HIDE DEF tt, lo, n, i, hi
            <7> QED
              BY <3>3, <2>1, <2>3, <2>6, <2>7, <1>4
          <6> HIDE DEF tt, a, i, lo
          <6> QED
            BY <6>1, <6>2, <5>1, <1>4
        <5>4. i > 1 \/ i = 1
          BY <2>8
        <5> HIDE DEF x, tt, a, i
        <5>5. x < a /\ (i > 1 \/ expoType # 1) => a - 2 <= tt
          BY <5>2, <5>3, <5>4
        <5> QED
          BY <5>1, <5>5
      <4>2. i > 1 => a <= y
        <5> HIDE DEF x, tt, a, b, hi, n, i, lo
        <5> QED
          BY <2>3, <2>4
      <4>3. ASSUME i < n - 1 PROVE y < b
        <5>1. x < b
          BY <4>3, <3>2
        <5>2. CASE a < b
          <6> HIDE DEF x, tt, a, b, hi, n, i, lo
          <6> QED
            BY <5>1, <5>2, <2>3, <2>4
        <5>3. CASE a = b /\ i > 1
          <6>1. tt >= Tabled!End(i - 1) /\ tt < Tabled!End(i) /\ Tabled!End(i - 1) = Tabled!End(i)
            <7> HIDE DEF x, tt, a, b, hi, n, i, lo
            <7> QED
              BY <5>3, <4>3, <2>1, <2>4, <2>5, <2>8
          <6> HIDE DEF x, tt, a, b, hi, n, i, lo
          <6> QED
            BY <6>1, <2>3, <2>4
        <5>4. CASE a = b /\ i = 1
          <6>1. tt < Tabled!End(1) /\ a = lo
            <7> HIDE DEF x, tt, a, b, hi, n, lo
            <7> QED
              BY <5>4, <4>3, <2>1, <2>8
          <6>2. expoType = 1
            <7> HIDE DEF x, tt, a, b, hi, n, lo
            <7> QED
              BY <6>1, <5>4, <3>3, <2>1, <2>3, <2>4, <2>6, <2>7
          <6> QED
            BY <6>2, <5>1, <5>4, <2>8
        <5> HIDE DEF x, tt, a, b, hi, n, i, lo
        <5> QED
          BY <5>2, <5>3, <5>4, <2>4, <2>8
      <4>4. expoType # 1 => lo <= y /\ y < hi
        <5> SUFFICES ASSUME expoType # 1 PROVE lo <= y /\ y < hi
          OBVIOUS
        <5>1. x < b
          BY <3>2
        <5> HIDE DEF x, tt, a, b, hi, n, i, lo
        <5>2. lo <= y
          BY <2>3, <2>4, <1>4
        <5>3. y < hi
          BY <5>1, <4>3, <3>5, <2>3, <2>4, <2>8, <1>4
        <5> QED
          BY <5>2, <5>3
      <4> HIDE DEF y
      <4> QED
        BY <4>1, <4>2, <4>3, <4>4, <3>1, <2>20
    <3> QED
      BY <3>4, <3>5
  <2> QED
    BY <2>9, <2>10, <2>11
<1> QED
  BY <1>2, <1>6, <1>7, <1>8 DEF Placed

----------------------------------------------------------------------------
(* The table stays in place.                                               *)

(* The table itself never changes.                                         *)
LEMMA TableStaysSo ==
    ASSUME TableOK, UNCHANGED <<u, expoType, startTime>>,
           Placed(now', NextTimeEvent', last', ipoPoint', t_offset'),
           \A s \in saved' : Placed(s.time, s.NextTimeEvent, s.at[1], s.at[2], s.at[3])
    PROVE  TableInv'
<1>1. u' = u /\ expoType' = expoType /\ startTime' = startTime
  OBVIOUS
<1>2. TableOK'
  BY <1>1 DEF TableOK
<1>3. ASSUME NEW t, NEW e, NEW i, NEW p, NEW o, Placed(t, e, i, p, o)
      PROVE  Placed(t, e, i, p, o)'
  BY <1>1, <1>3 DEF Placed, BeforeIt, OfOne, InInterval, InPeriod, Tabled!PointIn, Tabled!EventIn,
                    Tabled!End, Tabled!T, Tabled!tmin, Tabled!tmax, Tabled!nt1
<1>4. Placed(now, NextTimeEvent, last, ipoPoint, t_offset)'
  <2>1. \A t, e, i, p, o : Placed(t, e, i, p, o) =>
           /\ t \in 0 .. TableHorizon /\ o \in Int
           /\ BeforeIt(t, e, i, p, o)' \/ OfOne(t, e, i, p)' \/ InInterval(t, e, i, p, o)'
    BY <1>3 DEF Placed
  <2> QED
    BY <1>1 DEF Placed, BeforeIt, OfOne, InInterval, InPeriod, Tabled!PointIn, Tabled!EventIn,
                Tabled!End, Tabled!T, Tabled!tmin, Tabled!tmax, Tabled!nt1
<1>5. (\A s \in saved : Placed(s.time, s.NextTimeEvent, s.at[1], s.at[2], s.at[3]))'
  <2>1. ASSUME NEW s \in saved'
        PROVE  Placed(s.time, s.NextTimeEvent, s.at[1], s.at[2], s.at[3])'
    <3>1. Placed(s.time, s.NextTimeEvent, s.at[1], s.at[2], s.at[3])
      OBVIOUS
    <3> QED
      BY <3>1, <1>3
  <2> QED
    BY <2>1
<1> QED
  BY <1>2, <1>4, <1>5 DEF TableInv

(* A number of periods before a time, it is within the first.              *)
LEMMA WholePeriods ==
    ASSUME NEW x \in Int, NEW lo \in Int, NEW hi \in Int, lo < hi
    PROVE  LET k == (x - lo) \div (hi - lo)
           IN  k \in Int /\ lo <= x - k * (hi - lo) /\ x - k * (hi - lo) <= hi - 1
<1> DEFINE T == hi - lo
           k == (x - lo) \div T
<1>1. T \in Nat \ {0} /\ x - lo \in Int
  OBVIOUS
<1> HIDE DEF T
<1>2. k \in Int /\ k * T <= x - lo /\ x - lo < k * T + T
  BY <1>1, Division
<1> HIDE DEF k
<1> DEFINE w == k * T
<1>3. w \in Int /\ w <= x - lo /\ x - lo < w + T
  BY <1>1, <1>2
<1> HIDE DEF w
<1>4. lo <= x - w /\ x - w <= hi - 1
  BY <1>3 DEF T
<1> QED
  BY <1>2, <1>4 DEF w, k, T

(* At the initial time the table is in its interval, or before its start.  *)
LEMMA TableStarts == Tabled!Init => TableInv
<1> SUFFICES ASSUME Tabled!Init PROVE TableInv
  OBVIOUS
<1> DEFINE n == Len(u)
           lo == u[1]
           hi == u[n]
           o == t_offset
<1>1. /\ u \in Tables /\ expoType \in 0 .. 2 /\ startTime \in StartTimes
      /\ IF n = 1 THEN ~(0 < Tabled!Limit(startTime)) ELSE hi # 0 \/ expoType = 2
      /\ expoType = 2 => hi - lo > 0 \/ n = 1
      /\ now = 0 /\ saved = {}
      /\ o = startTime + (IF hi - lo > 0 /\ expoType = 2 THEN (0 - startTime - lo) \div (hi - lo) ELSE 0) * (hi - lo)
      /\ IF 0 < Tabled!Limit(startTime) \/ n = 1
         THEN /\ last = 1
              /\ ipoPoint = IF 0 < Tabled!Limit(startTime) THEN 1 ELSE 0
              /\ NextTimeEvent = IF 0 < Tabled!Limit(startTime) THEN startTime ELSE Never
         ELSE /\ last = Tabled!Interval(1, 0 - o)
              /\ ipoPoint = Tabled!PointIn(0 - o)
              /\ NextTimeEvent = Tabled!EventIn(last, 0 - o, o)
  BY DEF Tabled!Init, Tabled!Periods, Tabled!BeforeStart, Tabled!T, Tabled!tmin, Tabled!tmax, Tabled!nt1
<1>2. u \in Seq(Int) /\ Len(u) \in Nat \ {0} /\ u[1] \in Int /\ u[Len(u)] \in Int
  <2>1. u \in Seq(Int) /\ u # <<>>
    BY <1>1, TablesAssumption DEF Tabled!TableAssumption
  <2>2. Len(u) \in Nat \ {0}
    BY <2>1
  <2>3. 1 \in 1 .. Len(u) /\ Len(u) \in 1 .. Len(u)
    BY <2>2
  <2> QED
    BY <2>1, <2>2, <2>3
<1>3. TableOK
  <2>1. n > 1 => n # 1
    <3> HIDE DEF n
    <3> QED
      OBVIOUS
  <2>2. expoType = 2 /\ n > 1 => hi > lo
    <3>1. lo \in Int /\ hi \in Int
      BY <1>2
    <3>2. expoType = 2 /\ n > 1 => hi - lo > 0
      BY <1>1, <2>1
    <3> HIDE DEF lo, hi
    <3> QED
      BY <3>1, <3>2
  <2> QED
    BY <1>1, <2>1, <2>2 DEF TableOK
<1>4. /\ startTime \in Int /\ TableHorizon \in Nat /\ Never \in Nat
      /\ lo \in Int /\ hi \in Int
      /\ Tabled!Limit(startTime) \in Int
  BY <1>3, TableIs, LimitIs
<1>11. n \in Nat \ {0}
  BY <1>2
<1> HIDE DEF n, lo, hi, o
<1>5. /\ o \in Int
      /\ IF expoType = 2 /\ hi > lo
         THEN (\E m \in Int : o = startTime + m * (hi - lo)) /\ lo <= 0 - o /\ 0 - o <= hi - 1
         ELSE o = startTime
  <2>1. CASE expoType = 2 /\ hi > lo
    <3> DEFINE x == 0 - startTime
               k == (x - lo) \div (hi - lo)
    <3>1. x \in Int
      BY <1>4
    <3>2. k \in Int /\ lo <= x - k * (hi - lo) /\ x - k * (hi - lo) <= hi - 1
      <4> HIDE DEF x
      <4> QED
        BY <3>1, <2>1, <1>4, WholePeriods
    <3>3. o = startTime + k * (hi - lo)
      <4>1. hi - lo > 0
        BY <2>1, <1>4
      <4> QED
        BY <4>1, <2>1, <1>1
    <3> HIDE DEF k
    <3> DEFINE w == k * (hi - lo)
    <3>4. w \in Int /\ o = startTime + w /\ lo <= x - w /\ x - w <= hi - 1
      BY <3>2, <3>3, <1>4
    <3> HIDE DEF w
    <3>5. o \in Int /\ lo <= 0 - o /\ 0 - o <= hi - 1
      BY <3>4, <1>4
    <3> QED
      BY <3>2, <3>3, <3>5, <2>1
  <2>2. CASE ~(expoType = 2 /\ hi > lo)
    <3>1. o = startTime + 0 * (hi - lo)
      <4>1. ~(hi - lo > 0 /\ expoType = 2)
        BY <2>2, <1>4
      <4> QED
        BY <4>1, <1>1
    <3>2. o = startTime
      BY <3>1, <1>4
    <3> QED
      BY <3>2, <2>2, <1>4
  <2> QED
    BY <2>1, <2>2
<1>6. n > 1 => InPeriod(0, o) /\ (expoType = 2 => 0 - o <= hi - 1)
  <2> SUFFICES ASSUME n > 1 PROVE InPeriod(0, o) /\ (expoType = 2 => 0 - o <= hi - 1)
    OBVIOUS
  <2>1. expoType = 2 => hi > lo
    BY <1>3 DEF TableOK, n, hi, lo
  <2>2. CASE expoType = 2
    <3>1. (\E m \in Int : o = startTime + m * (hi - lo)) /\ lo <= 0 - o /\ 0 - o <= hi - 1
      BY <2>1, <2>2, <1>5
    <3>2. lo - 1 <= 0 - o
      BY <3>1, <1>4, <1>5
    <3> QED
      BY <3>1, <3>2, <2>2 DEF InPeriod, lo, hi, n
  <2>3. CASE expoType # 2
    BY <2>3, <1>5 DEF InPeriod
  <2> QED
    BY <2>2, <2>3
<1>7. 0 \in 0 .. TableHorizon
  BY <1>4
<1>8. CASE 0 < Tabled!Limit(startTime)
  <2>1. n # 1 /\ last = 1 /\ ipoPoint = 1 /\ NextTimeEvent = startTime
    BY <1>1, <1>8
  <2> n > 1
    BY <2>1, <1>11
  <2>2. BeforeIt(0, NextTimeEvent, last, ipoPoint, o)
    BY <2>1, <1>6, <1>8 DEF BeforeIt, n
  <2>3. Placed(0, NextTimeEvent, last, ipoPoint, o)
    BY <2>2, <1>5, <1>7 DEF Placed
  <2> QED
    BY <2>3, <1>1, <1>3 DEF TableInv, o
<1>9. CASE ~(0 < Tabled!Limit(startTime)) /\ n = 1
  <2>1. last = 1 /\ ipoPoint = 0 /\ NextTimeEvent = Never /\ 0 >= Tabled!Limit(startTime)
    BY <1>1, <1>4, <1>9
  <2>2. OfOne(0, NextTimeEvent, last, ipoPoint)
    BY <2>1, <1>9 DEF OfOne, n
  <2>3. Placed(0, NextTimeEvent, last, ipoPoint, o)
    BY <2>2, <1>5, <1>7 DEF Placed
  <2> QED
    BY <2>3, <1>1, <1>3 DEF TableInv, o
<1>10. CASE ~(0 < Tabled!Limit(startTime)) /\ n # 1
  <2>0. /\ last = Tabled!Interval(1, 0 - o)
        /\ ipoPoint = Tabled!PointIn(0 - o)
        /\ NextTimeEvent = Tabled!EventIn(last, 0 - o, o)
    BY <1>1, <1>10
  <2>1. n > 1 /\ 0 >= Tabled!Limit(startTime)
    BY <1>11, <1>4, <1>10
  <2> DEFINE x == 0 - o
  <2>2. x \in Int /\ 1 \in 1 .. n - 1 /\ n \in Nat
    BY <2>1, <1>2, <1>5 DEF n
  <2>3. /\ last \in 1 .. n - 1
        /\ last = n - 1 \/ x < Tabled!End(last)
        /\ last > 1 => x >= Tabled!End(last - 1)
    <3>1. last = Tabled!Interval(1, x) /\ Len(u) > 1 /\ 1 \in 1 .. Len(u) - 1
      BY <2>0, <2>1, <2>2 DEF n
    <3> HIDE DEF x
    <3> QED
      BY <3>1, <2>2, <1>3, IntervalIs DEF n
  <2>4. InInterval(0, NextTimeEvent, last, ipoPoint, o)
    <3>1. /\ Len(u) > 1 /\ 0 >= Tabled!Limit(startTime) /\ last \in 1 .. Len(u) - 1
          /\ last = Len(u) - 1 \/ 0 - o < Tabled!End(last)
          /\ last > 1 => 0 - o >= Tabled!End(last - 1)
          /\ InPeriod(0, o) /\ (expoType = 2 => 0 - o <= u[Len(u)] - 1)
      BY <2>1, <2>3, <1>6 DEF n, hi
    <3> QED
      BY <3>1, <2>0 DEF InInterval
  <2>5. Placed(0, NextTimeEvent, last, ipoPoint, o)
    BY <2>4, <1>5, <1>7 DEF Placed
  <2> QED
    BY <2>5, <1>1, <1>3 DEF TableInv, o
<1> QED
  BY <1>8, <1>9, <1>10

(* The period of an event: its time is in the period, but for a unit.      *)
LEMMA OffsetIs ==
    ASSUME TableOK, Len(u) > 1, NEW t \in Int, Tabled!NextPeriod(t)
    PROVE  /\ Tabled!Offset(t) \in Int
           /\ \E m \in Int : Tabled!Offset(t) = startTime + m * (u[Len(u)] - u[1])
           /\ u[1] - 1 <= t - Tabled!Offset(t) /\ t - Tabled!Offset(t) <= u[Len(u)] - 1
<1> DEFINE lo == u[1]
           hi == u[Len(u)]
           k == hi - lo
           x == t - startTime
           iv == (x - lo) \div k
           o(m) == startTime + m * k
           M == {m \in iv - 1 .. iv + 1 : t - o(m) < Tabled!Limit(hi)}
           mm == Tabled!Min(M)
<1>1. /\ expoType = 2
      /\ Tabled!Offset(t) = o(mm)
  BY DEF Tabled!NextPeriod, Tabled!Offset, Tabled!T, Tabled!tmax, Tabled!tmin, Tabled!nt1
<1>2. /\ lo \in Int /\ hi \in Int /\ startTime \in Int /\ x \in Int /\ lo < hi
      /\ Tabled!Limit(hi) \in Int /\ hi - 1 <= Tabled!Limit(hi) /\ Tabled!Limit(hi) <= hi
  <2>1. lo \in Int /\ hi \in Int /\ startTime \in Int
    BY TableIs
  <2>2. lo < hi
    <3>1. hi > lo
      BY <1>1 DEF TableOK
    <3> HIDE DEF lo, hi
    <3> QED
      BY <3>1, <2>1
  <2> HIDE DEF lo, hi
  <2>3. Tabled!Limit(hi) \in Int /\ hi - 1 <= Tabled!Limit(hi) /\ Tabled!Limit(hi) <= hi
    BY <2>1, LimitIs
  <2>4. x \in Int
    BY <2>1
  <2> QED
    BY <2>1, <2>2, <2>3, <2>4
<1> HIDE DEF lo, hi
<1>3. k \in Nat \ {0}
  BY <1>2
<1>4. iv \in Int /\ lo <= x - iv * k /\ x - iv * k <= hi - 1
  <2> HIDE DEF x
  <2> QED
    BY <1>2, WholePeriods
<1> HIDE DEF iv
<1> DEFINE w == iv * k
<1>5. w \in Int /\ (iv - 1) * k = w - k /\ (iv + 1) * k = w + k
  <2> HIDE DEF k
  <2> QED
    BY <1>3, <1>4
<1>6. lo <= x - w /\ x - w <= hi - 1
  BY <1>4
<1>7. o(iv) = startTime + w /\ o(iv - 1) = startTime + (w - k) /\ o(iv + 1) = startTime + (w + k)
  BY <1>5
<1> HIDE DEF w, o
<1>8. /\ t - o(iv) = x - w /\ t - o(iv - 1) >= hi /\ t - o(iv + 1) <= lo - 1
      /\ t - o(iv + 1) = x - w - k
      /\ o(iv) \in Int /\ o(iv - 1) \in Int /\ o(iv + 1) \in Int
  BY <1>2, <1>5, <1>6, <1>7
<1>9. iv - 1 \notin M /\ iv + 1 \in M /\ M \subseteq {iv, iv + 1}
  <2>1. /\ ~(t - o(iv - 1) < Tabled!Limit(hi)) /\ t - o(iv + 1) < Tabled!Limit(hi)
    BY <1>2, <1>8
  <2>2. \A m \in iv - 1 .. iv + 1 : m = iv - 1 \/ m = iv \/ m = iv + 1
    BY <1>4
  <2>3. iv + 1 \in iv - 1 .. iv + 1
    BY <1>4
  <2> QED
    BY <2>1, <2>2, <2>3
<1>10. iv \in M <=> t - o(iv) < Tabled!Limit(hi)
  <2>1. iv \in iv - 1 .. iv + 1
    BY <1>4
  <2> QED
    BY <2>1
<1>11. mm \in M /\ \A m \in M : mm <= m
  <2>1. mm = CHOOSE m \in M : \A j \in M : m <= j
    BY DEF Tabled!Min
  <2>2. \E m \in M : \A j \in M : m <= j
    <3> HIDE DEF M
    <3>1. CASE iv \in M
      <4>1. iv <= iv /\ iv <= iv + 1
        BY <1>4
      <4> QED
        BY <3>1, <4>1, <1>9
    <3>2. CASE iv \notin M
      <4>1. iv + 1 <= iv + 1
        BY <1>4
      <4> QED
        BY <3>2, <4>1, <1>9
    <3> QED
      BY <3>1, <3>2
  <2> HIDE DEF M, mm
  <2> QED
    BY <2>1, <2>2
<1> HIDE DEF M, mm
<1>12. mm \in Int /\ o(mm) \in Int /\ lo - 1 <= t - o(mm) /\ t - o(mm) <= hi - 1
  <2>1. CASE iv \in M
    <3>1. mm = iv
      <4>1. mm <= iv /\ (mm = iv \/ mm = iv + 1)
        BY <2>1, <1>9, <1>11
      <4> QED
        BY <4>1, <1>4
    <3> QED
      BY <3>1, <1>2, <1>4, <1>5, <1>6, <1>8
  <2>2. CASE iv \notin M
    <3>1. mm = iv + 1
      BY <2>2, <1>9, <1>11
    <3>2. t - o(iv) >= Tabled!Limit(hi)
      BY <2>2, <1>10, <1>2, <1>8
    <3>3. x - w = hi - 1
      BY <3>2, <1>2, <1>5, <1>6, <1>8
    <3>4. x - w - k = lo - 1
      BY <3>3, <1>2
    <3>5. t - o(iv + 1) = lo - 1 /\ iv + 1 \in Int
      BY <3>4, <1>4, <1>8
    <3>6. lo - 1 <= t - o(iv + 1) /\ t - o(iv + 1) <= hi - 1 /\ o(iv + 1) \in Int
      BY <3>5, <1>2, <1>8
    <3> QED
      BY <3>1, <3>5, <3>6
  <2> QED
    BY <2>1, <2>2
<1> QED
  BY <1>1, <1>12 DEF o, lo, hi

(* At an event the table moves to the interval of its time.                *)
LEMMA TableEvent ==
    ASSUME TableInv, NEW t \in 0 .. TableHorizon, Tabled!Event(t)
    PROVE  TableInv'
<1>1. TableOK /\ Placed(now, NextTimeEvent, last, ipoPoint, t_offset)
  BY DEF TableInv
<1>2. /\ now <= t /\ now' = t /\ UNCHANGED <<u, expoType, startTime, saved>>
      /\ IF t < Tabled!Limit(startTime)
         THEN NextTimeEvent' = startTime /\ UNCHANGED <<last, ipoPoint, t_offset>>
         ELSE IF Len(u) = 1
         THEN NextTimeEvent' = Never /\ UNCHANGED <<last, ipoPoint, t_offset>>
         ELSE /\ t_offset' = Tabled!Offset(t)
              /\ last' = Tabled!Interval(Tabled!From(t), t - t_offset')
              /\ ipoPoint' = Tabled!PointIn(t - t_offset')
              /\ NextTimeEvent' = Tabled!EventIn(last', t - t_offset', t_offset')
  BY DEF Tabled!Event, Tabled!table, Tabled!nt1, Tabled!BeforeStart
<1>3. /\ t \in Int /\ now \in Int /\ t_offset \in Int /\ startTime \in Int
      /\ Tabled!Limit(startTime) \in Int /\ Len(u) \in Nat \ {0} /\ TableHorizon \in Nat
      /\ u[1] \in Int /\ u[Len(u)] \in Int
  BY <1>1, TableIs, LimitIs DEF Placed
<1> SUFFICES Placed(t, NextTimeEvent', last', ipoPoint', t_offset')
  <2>1. \A s \in saved' : Placed(s.time, s.NextTimeEvent, s.at[1], s.at[2], s.at[3])
    BY <1>2 DEF TableInv
  <2> QED
    BY <2>1, <1>1, <1>2, TableStaysSo
(* The time of the table has not gone back.                                *)
<1>4. InPeriod(now, t_offset) => InPeriod(t, t_offset)
  <2> DEFINE a == u[1]
  <2>1. a \in Int
    BY <1>3
  <2> HIDE DEF a
  <2>2. a - 1 <= now - t_offset => a - 1 <= t - t_offset
    BY <2>1, <1>2, <1>3
  <2> QED
    BY <2>2 DEF InPeriod, a
<1>5. CASE t < Tabled!Limit(startTime)
  <2>1. now < Tabled!Limit(startTime) /\ ~(now >= Tabled!Limit(startTime))
    BY <1>2, <1>3, <1>5
  <2>2. BeforeIt(now, NextTimeEvent, last, ipoPoint, t_offset)
    BY <2>1, <1>1 DEF Placed, OfOne, InInterval
  <2>3. NextTimeEvent' = startTime /\ UNCHANGED <<last, ipoPoint, t_offset>>
    BY <1>2, <1>5
  <2>4. BeforeIt(t, NextTimeEvent', last', ipoPoint', t_offset')
    BY <2>2, <2>3, <1>4, <1>5 DEF BeforeIt
  <2> QED
    BY <2>3, <2>4, <1>3 DEF Placed
<1>6. CASE ~(t < Tabled!Limit(startTime)) /\ Len(u) = 1
  <2>1. t >= Tabled!Limit(startTime)
    BY <1>3, <1>6
  <2>2. NextTimeEvent' = Never /\ UNCHANGED <<last, ipoPoint, t_offset>>
    BY <1>2, <1>6
  <2>3. OfOne(now, NextTimeEvent, last, ipoPoint)
    <3>1. ~(Len(u) > 1)
      BY <1>6
    <3> QED
      BY <3>1, <1>1 DEF Placed, BeforeIt, InInterval
  <2>4. OfOne(t, NextTimeEvent', last', ipoPoint')
    BY <2>1, <2>2, <2>3 DEF OfOne
  <2> QED
    BY <2>2, <2>4, <1>3 DEF Placed
<1>7. CASE ~(t < Tabled!Limit(startTime)) /\ Len(u) # 1
  <2> DEFINE o == t_offset'
             x == t - o
             n == Len(u)
             from == Tabled!From(t)
  <2>1. /\ o = Tabled!Offset(t) /\ last' = Tabled!Interval(from, x)
        /\ ipoPoint' = Tabled!PointIn(x) /\ NextTimeEvent' = Tabled!EventIn(last', x, o)
    BY <1>2, <1>7
  <2>2. t >= Tabled!Limit(startTime) /\ n \in Nat /\ n > 1
    <3>1. n \in Nat \ {0} /\ n # 1
      BY <1>3, <1>7
    <3> HIDE DEF n
    <3>2. n \in Nat /\ n > 1
      BY <3>1
    <3> QED
      BY <3>2, <1>3, <1>7
  <2>3. \/ BeforeIt(now, NextTimeEvent, last, ipoPoint, t_offset)
        \/ InInterval(now, NextTimeEvent, last, ipoPoint, t_offset)
    BY <1>1, <1>7 DEF Placed, OfOne
  <2>4. last \in 1 .. n - 1 /\ InPeriod(now, t_offset)
    <3>1. CASE BeforeIt(now, NextTimeEvent, last, ipoPoint, t_offset)
      <4>1. last = 1 /\ InPeriod(now, t_offset)
        BY <3>1 DEF BeforeIt
      <4>2. 1 \in 1 .. n - 1
        <5> HIDE DEF n
        <5> QED
          BY <2>2
      <4> QED
        BY <4>1, <4>2
    <3>2. CASE InInterval(now, NextTimeEvent, last, ipoPoint, t_offset)
      BY <3>2 DEF InInterval
    <3> QED
      BY <3>1, <3>2, <2>3
  <2>5. CASE Tabled!NextPeriod(t)
    <3>1. /\ o \in Int /\ u[1] - 1 <= t - o /\ t - o <= u[Len(u)] - 1
          /\ \E m \in Int : o = startTime + m * (u[Len(u)] - u[1])
      <4>1. Len(u) > 1
        BY <2>2
      <4> HIDE DEF o
      <4> QED
        BY <4>1, <2>1, <2>5, <1>1, <1>3, OffsetIs
    <3>2. InPeriod(t, o)
      BY <3>1, <2>5 DEF InPeriod, Tabled!NextPeriod
    <3>3. from = 1 /\ x \in Int /\ 1 \in 1 .. n - 1
      <4>1. from = 1
        BY <2>5 DEF Tabled!From
      <4> HIDE DEF n, from
      <4> QED
        BY <4>1, <3>1, <2>2, <1>3
    <3>4. /\ last' \in 1 .. n - 1
          /\ last' = n - 1 \/ x < Tabled!End(last')
          /\ last' > 1 => x >= Tabled!End(last' - 1)
      <4>1. last' = Tabled!Interval(1, x) /\ Len(u) > 1
        BY <3>3, <2>1, <2>2
      <4> HIDE DEF x
      <4> QED
        BY <4>1, <3>3, <1>1, IntervalIs
    <3>5. InInterval(t, NextTimeEvent', last', ipoPoint', o)
      BY <3>1, <3>2, <3>4, <2>1, <2>2 DEF InInterval
    <3> QED
      BY <3>1, <3>5 DEF Placed
  <2>6. CASE ~Tabled!NextPeriod(t)
    <3>1. o = t_offset /\ from = last
      BY <2>1, <2>6 DEF Tabled!Offset, Tabled!From
    <3>2. o \in Int /\ x \in Int /\ InPeriod(t, o)
      BY <3>1, <2>4, <1>3, <1>4
    <3>3. expoType = 2 => x <= u[Len(u)] - 1
      <4>1. expoType = 2 => ~(t - t_offset >= Tabled!Limit(u[Len(u)]))
        BY <2>6 DEF Tabled!NextPeriod, Tabled!tmax, Tabled!nt1
      <4> DEFINE hi == u[Len(u)]
      <4>2. hi \in Int /\ Tabled!Limit(hi) \in Int /\ Tabled!Limit(hi) <= hi
        BY <1>3, LimitIs
      <4> HIDE DEF hi
      <4>3. expoType = 2 => ~(x >= Tabled!Limit(hi))
        BY <4>1, <3>1 DEF hi
      <4> HIDE DEF x
      <4>4. ~(x >= Tabled!Limit(hi)) => x <= hi - 1
        BY <4>2, <3>2
      <4> QED
        BY <4>3, <4>4 DEF hi
    <3>4. /\ last' \in last .. n - 1
          /\ last' = n - 1 \/ x < Tabled!End(last')
          /\ last' > last => x >= Tabled!End(last' - 1)
      <4>1. last' = Tabled!Interval(last, x) /\ Len(u) > 1
        BY <3>1, <2>1, <2>2
      <4> HIDE DEF x
      <4> QED
        BY <4>1, <3>2, <2>4, <1>1, IntervalIs
    <3>5. last > 1 => x >= Tabled!End(last - 1)
      <4> SUFFICES ASSUME last > 1 PROVE x >= Tabled!End(last - 1)
        OBVIOUS
      <4>1. InInterval(now, NextTimeEvent, last, ipoPoint, t_offset)
        BY <2>3, <2>4 DEF BeforeIt
      <4>2. now - t_offset >= Tabled!End(last - 1)
        BY <4>1 DEF InInterval
      <4>3. last - 1 \in 1 .. n - 1
        <5> HIDE DEF n
        <5> QED
          BY <2>2, <2>4
      <4>4. Tabled!End(last - 1) \in Int
        BY <4>3, <1>1, EndIs
      <4> QED
        BY <4>2, <4>4, <3>1, <1>2, <1>3
    <3>6. /\ last' \in 1 .. n - 1
          /\ last' = n - 1 \/ x < Tabled!End(last')
          /\ last' > 1 => x >= Tabled!End(last' - 1)
      <4>1. last' \in 1 .. n - 1 /\ (last' > 1 => last' > last \/ (last' = last /\ last > 1))
        <5> HIDE DEF n
        <5>1. last \in Int /\ last >= 1 /\ last' \in Int /\ last <= last' /\ last' <= n - 1
          BY <2>2, <2>4, <3>4
        <5> QED
          BY <5>1, <2>2
      <4> QED
        BY <4>1, <3>4, <3>5
    <3>7. InInterval(t, NextTimeEvent', last', ipoPoint', o)
      BY <3>2, <3>3, <3>6, <2>1, <2>2 DEF InInterval
    <3> QED
      BY <3>2, <3>7 DEF Placed
  <2> QED
    BY <2>5, <2>6
<1> QED
  BY <1>5, <1>6, <1>7

(* The master saves a state, or goes back to one of the same interval.     *)
LEMMA TableSaves ==
    ASSUME TableInv, Tabled!GetFMUstate
    PROVE  TableInv'
<1> DEFINE s0 == [time |-> now, NextTimeEvent |-> NextTimeEvent,
                  at |-> <<last, ipoPoint, t_offset>>]
<1>1. saved' = {s0} /\ UNCHANGED <<u, expoType, startTime, last, ipoPoint, t_offset, now, NextTimeEvent>>
  BY DEF Tabled!GetFMUstate, Tabled!table
<1>2. /\ s0.time = now /\ s0.NextTimeEvent = NextTimeEvent
      /\ s0.at[1] = last /\ s0.at[2] = ipoPoint /\ s0.at[3] = t_offset
  OBVIOUS
<1> HIDE DEF s0
<1>3. TableOK /\ Placed(now, NextTimeEvent, last, ipoPoint, t_offset)
  BY DEF TableInv
<1>4. \A s \in saved' : Placed(s.time, s.NextTimeEvent, s.at[1], s.at[2], s.at[3])
  BY <1>1, <1>2, <1>3
<1>5. UNCHANGED <<u, expoType, startTime>>
      /\ Placed(now', NextTimeEvent', last', ipoPoint', t_offset')
  BY <1>1, <1>3
<1> QED
  BY <1>3, <1>4, <1>5, TableStaysSo

LEMMA TableRestores ==
    ASSUME TableInv, Tabled!SetFMUstate
    PROVE  TableInv'
<1>1. PICK s \in saved : /\ s.at = <<last, ipoPoint, t_offset>>
                         /\ now' = s.time /\ NextTimeEvent' = s.NextTimeEvent
  BY DEF Tabled!SetFMUstate
<1>2. UNCHANGED <<u, expoType, startTime, last, ipoPoint, t_offset, saved>>
  BY DEF Tabled!SetFMUstate, Tabled!table
<1>3. s.at[1] = last /\ s.at[2] = ipoPoint /\ s.at[3] = t_offset
  BY <1>1
<1>4. TableOK /\ \A r \in saved : Placed(r.time, r.NextTimeEvent, r.at[1], r.at[2], r.at[3])
  BY DEF TableInv
<1>5. Placed(s.time, s.NextTimeEvent, last, ipoPoint, t_offset)
  BY <1>3, <1>4
<1>6. /\ UNCHANGED <<u, expoType, startTime>>
      /\ Placed(now', NextTimeEvent', last', ipoPoint', t_offset')
      /\ \A r \in saved' : Placed(r.time, r.NextTimeEvent, r.at[1], r.at[2], r.at[3])
  BY <1>1, <1>2, <1>4, <1>5
<1> QED
  BY <1>4, <1>6, TableStaysSo

LEMMA TableNext ==
    ASSUME TableInv, Tabled!Next \/ UNCHANGED Tabled!vars
    PROVE  TableInv'
<1>1. CASE Tabled!GetFMUstate
  BY <1>1, TableSaves
<1>2. CASE Tabled!SetFMUstate
  BY <1>2, TableRestores
<1>3. CASE \E t \in 0 .. TableHorizon : Tabled!Event(t)
  BY <1>3, TableEvent
<1>4. CASE UNCHANGED Tabled!vars
  <2>1. UNCHANGED <<u, expoType, startTime, last, ipoPoint, t_offset, now, NextTimeEvent, saved>>
    BY <1>4 DEF Tabled!vars, Tabled!table
  <2>2. TableOK /\ Placed(now, NextTimeEvent, last, ipoPoint, t_offset)
        /\ \A s \in saved : Placed(s.time, s.NextTimeEvent, s.at[1], s.at[2], s.at[3])
    BY DEF TableInv
  <2>3. /\ UNCHANGED <<u, expoType, startTime>>
        /\ Placed(now', NextTimeEvent', last', ipoPoint', t_offset')
        /\ \A s \in saved' : Placed(s.time, s.NextTimeEvent, s.at[1], s.at[2], s.at[3])
    BY <2>1, <2>2
  <2> QED
    BY <2>2, <2>3, TableStaysSo
<1> QED
  BY <1>1, <1>2, <1>3, <1>4 DEF Tabled!Next

(* What the invariant says: the next event is ahead and what is evaluated  *)
(* until then is on the right piece.                                       *)
LEMMA TableSays ==
    ASSUME TableInv
    PROVE  Tabled!TypeOK /\ Tabled!TableInPlace
<1>1. TableOK /\ Placed(now, NextTimeEvent, last, ipoPoint, t_offset)
  BY DEF TableInv
<1>2. /\ NextTimeEvent \in Int /\ NextTimeEvent > now /\ NextTimeEvent \in 0 .. Never
      /\ last \in 1 .. Len(u) /\ ipoPoint \in 0 .. 3
  BY <1>1, EventAhead
<1>3. now \in 0 .. TableHorizon /\ t_offset \in Int
  BY <1>1 DEF Placed
<1>4. Tabled!TypeOK
  BY <1>1, <1>2, <1>3 DEF Tabled!TypeOK, Tabled!nt1, TableOK
<1>5. ASSUME NEW t \in now .. TableHorizon, t < NextTimeEvent PROVE Tabled!OnPiece(t)
  <2>1. t \in Int /\ now <= t
    BY <1>3
  <2> QED
    BY <2>1, <1>5, PieceIs
<1> QED
  BY <1>2, <1>4, <1>5 DEF Tabled!TableInPlace

(* From an event to the next one, wherever the evaluations are made, a     *)
(* table is evaluated on the piece its time is in, and the next event is   *)
(* ahead (dymTableTimeIni2, dymTableTimeIpo2).                             *)
THEOREM TablesAreInPlace == Spec => []TableInPlace
<1> DEFINE Inv == kind = "table" => TableInv
<1>1. Init => Inv
  BY TableStarts DEF Init
<1>2. Inv /\ [Next]_vars => Inv'
  <2> SUFFICES ASSUME Inv, [Next]_vars, kind' = "table" PROVE TableInv'
    OBVIOUS
  <2>1. kind = "table"
    BY DEF Next, vars
  <2>2. Tabled!Next \/ UNCHANGED Tabled!vars
    <3>1. CASE Next
      BY <2>1, <3>1 DEF Next
    <3>2. CASE UNCHANGED vars
      BY <3>2 DEF vars, table, Tabled!vars, Tabled!table
    <3> QED
      BY <3>1, <3>2
  <2> QED
    BY <2>1, <2>2, TableNext
<1>3. Inv => TableInPlace
  BY TableSays DEF TableInPlace
<1> QED
  BY <1>1, <1>2, <1>3, PTL DEF Spec
=============================================================================
