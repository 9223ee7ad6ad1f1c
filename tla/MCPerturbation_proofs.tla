------------------------ MODULE MCPerturbation_proofs ------------------------
(***************************************************************************)
(* What displaces the values of an instance puts them back, and computes   *)
(* what it should: the Jacobian callbacks for any number of states, any    *)
(* pattern and grouping of the columns and any failures, in either form of *)
(* the matrix; fmi2GetDirectionalDerivative for any finite set of known    *)
(* variables; and the inputs along their derivatives for any inputs,       *)
(* values, rates and times.                                                *)
(*                                                                         *)
(* The invariants: of the callback, how far the matrix is (by groups, the  *)
(* entries of the groups that are done; by columns, the columns before the *)
(* present one); of the derivative, that the columns which are kept are of *)
(* the present values unless they are to be dropped, and so in every saved *)
(* state; of the inputs, which of the fields of ipData are live: while     *)
(* they are in use they are the lines the master stated, and otherwise the *)
(* lines are level, at the inputs.                                         *)
(***************************************************************************)
EXTENDS MCPerturbation, FiniteSetTheorems, TLAPS

(* The sizes the callback and the derivative compute with. *)
LEMMA SameCardinality == \A S : Callback!Cardinality(S) = Cardinality(S)
BY DEF Callback!Cardinality, Cardinality, Callback!IsFiniteSet, IsFiniteSet

(* The callback has states to differentiate by, or none. *)
Sized == N \in Nat

CallbackTypes ==
    /\ Sparse \in BOOLEAN
    /\ depends \in SUBSET (Callback!Columns \X Callback!Columns)
    /\ group \in [Callback!Columns -> 0 .. N] /\ Callback!Grouping(depends, group)
    /\ g \in Nat \ {0} /\ col \in 1 .. N + 1 /\ k \in 0 .. Callback!Attempts - 1
    /\ y \in [Callback!Columns -> Callback!Increments]
    /\ exhausted \subseteq Callback!Columns

MembersDisplaced == [j \in Callback!Columns |-> IF j \in Callback!Members THEN 1 ELSE 0]

CallbackAtRest ==
    pc \in {"called", "computed", "failed"} => y = Callback!Unperturbed /\ inJacobian = 0

Begun == pc \in {"called", "groups"} => col = 1 /\ k = 0 /\ exhausted = {}

Counted == pc = "called" => g = 1

(* The groups before g are done. *)
ByGroups ==
    pc = "groups" =>
        /\ Callback!Groups > 0
        /\ y = Callback!Unperturbed \/ (y = MembersDisplaced /\ g <= Callback!Groups)
        /\ ~Sparse => \A e \in Callback!Columns \X Callback!Columns :
              J[e] = IF e \in depends /\ group[e[2]] \in 1 .. g - 1 THEN "right" ELSE "zero"

(* The columns before col are done. *)
ByColumns ==
    pc = "columns" =>
        /\ \A j \in Callback!Columns : j # col => y[j] = 0
        /\ \A e \in Callback!Columns \X Callback!Columns :
              e[2] < col => J[e] = "right" \/ e[2] \in exhausted

CallbackInv ==
    /\ CallbackTypes /\ CallbackAtRest /\ Begun /\ Counted /\ ByGroups /\ ByColumns
    /\ Callback!DenseIsRight

----------------------------------------------------------------------------
(* The groups are numbered from 1, and every column is in one if there are *)
(* any.                                                                    *)
LEMMA GroupsAreNumbered ==
    ASSUME Sized, CallbackTypes, Callback!Groups > 0
    PROVE  /\ Callback!Groups \in Nat /\ Callback!Groups <= N
           /\ \A j \in Callback!Columns : group[j] \in 1 .. Callback!Groups
<1>1. CASE group = [j \in Callback!Columns |-> 0]
  <2>1. {group[j] : j \in Callback!Columns} \ {0} = {}
    BY <1>1
  <2>2. Callback!Groups = 0
    BY <2>1, FS_EmptySet, SameCardinality DEF Callback!Groups
  <2> QED BY <2>2
<1>2. CASE group # [j \in Callback!Columns |-> 0]
  <2>1. PICK n \in Callback!Columns : {group[j] : j \in Callback!Columns} = 1 .. n
    BY <1>2 DEF CallbackTypes, Callback!Grouping
  <2>2. n \in Nat \ {0} /\ n <= N /\ {group[j] : j \in Callback!Columns} \ {0} = 1 .. n
    BY <2>1 DEF Callback!Columns, Sized
  <2>3. Cardinality(1 .. n) = n
    BY <2>2, FS_Interval
  <2>4. Callback!Groups = n
    BY <2>2, <2>3, SameCardinality DEF Callback!Groups
  <2> QED BY <2>1, <2>2, <2>4
<1> QED BY <1>1, <1>2

(* Two columns of one group share no row. *)
LEMMA RowsApart ==
    ASSUME CallbackTypes,
           NEW i \in Callback!Columns, NEW j \in Callback!Columns, NEW l \in Callback!Columns,
           <<i, j>> \in depends, <<i, l>> \in depends, group[j] = group[l], group[j] # 0
    PROVE  j = l
<1>1. CASE group = [m \in Callback!Columns |-> 0]
  BY <1>1
<1>2. CASE group # [m \in Callback!Columns |-> 0]
  BY <1>2 DEF CallbackTypes, Callback!Grouping
<1> QED BY <1>1, <1>2

----------------------------------------------------------------------------
(* The sparse matrix: where its entries are.                               *)

(* Sets that are put in one-to-one correspondence have the same size. *)
LEMMA SameSize ==
    ASSUME NEW S, NEW T, IsFiniteSet(S), NEW f \in [S -> T],
           \A a, b \in S : f[a] = f[b] => a = b,
           \A c \in T : \E a \in S : f[a] = c
    PROVE  IsFiniteSet(T) /\ Cardinality(T) = Cardinality(S)
<1>1. f \in Bijection(S, T)
  BY DEF Bijection, Injection, IsInjective, Surjection
<1>2. ExistsBijection(S, T)
  BY <1>1 DEF ExistsBijection
<1> QED BY <1>2, FS_Bijection

(* The rows of a column, those above one, the entries of the columns before*)
(* one, and the place of an entry.                                         *)
RowsOf(j) == {r \in Callback!Columns : <<r, j>> \in depends}
Above(i, j) == {r \in Callback!Columns : r < i /\ <<r, j>> \in depends}
Before(j) == {e \in Callback!Grouped : e[2] < j}
Place(i, j) == Cardinality(Before(j)) + Cardinality(Above(i, j))

Pattern == Sized /\ CallbackTypes

LEMMA GroupedAre ==
    ASSUME Pattern, NEW e \in Callback!Grouped
    PROVE  /\ e[1] \in Callback!Columns /\ e[2] \in Callback!Columns
           /\ e = <<e[1], e[2]>> /\ e \in depends /\ group[e[2]] \in 1 .. N
<1>1. e \in depends /\ group[e[2]] # 0 /\ e \in Callback!Columns \X Callback!Columns
  BY DEF Pattern, CallbackTypes, Callback!Grouped
<1>2. e[1] \in Callback!Columns /\ e[2] \in Callback!Columns /\ e = <<e[1], e[2]>>
  BY <1>1
<1>3. group[e[2]] \in 0 .. N
  BY <1>2 DEF Pattern, CallbackTypes
<1> QED BY <1>1, <1>2, <1>3 DEF Pattern, Sized

LEMMA PatternsAreFinite ==
    ASSUME Pattern
    PROVE  /\ IsFiniteSet(Callback!Grouped)
           /\ \A j : IsFiniteSet(Before(j)) /\ Cardinality(Before(j)) \in Nat
           /\ \A j : IsFiniteSet(RowsOf(j)) /\ Cardinality(RowsOf(j)) \in Nat
           /\ \A i, j : IsFiniteSet(Above(i, j)) /\ Cardinality(Above(i, j)) \in Nat
<1>1. IsFiniteSet(Callback!Columns)
  BY FS_Interval DEF Callback!Columns, Pattern, Sized
<1>2. IsFiniteSet(Callback!Columns \X Callback!Columns)
  BY <1>1, FS_Product
<1>3. Callback!Grouped \in SUBSET (Callback!Columns \X Callback!Columns)
  BY DEF Callback!Grouped, Pattern, CallbackTypes
<1>4. IsFiniteSet(Callback!Grouped)
  BY <1>2, <1>3, FS_Subset
<1>5. \A j : Before(j) \in SUBSET Callback!Grouped
  BY DEF Before
<1>6. \A i, j : /\ RowsOf(j) \in SUBSET Callback!Columns
                /\ Above(i, j) \in SUBSET Callback!Columns
  BY DEF RowsOf, Above
<1>7. \A j : IsFiniteSet(Before(j))
  BY <1>4, <1>5, FS_Subset
<1>8. \A i, j : IsFiniteSet(RowsOf(j)) /\ IsFiniteSet(Above(i, j))
  BY <1>1, <1>6, FS_Subset
<1> QED BY <1>4, <1>7, <1>8, FS_CardinalityType

(* What the callback computes from its index vector is the place. *)
LEMMA IndexIsPlace ==
    ASSUME Pattern, NEW e \in Callback!Grouped
    PROVE  Callback!Index(e[1], group[e[2]]) = Place(e[1], e[2])
<1>1. /\ e[1] \in Callback!Columns /\ e[2] \in Callback!Columns
      /\ e = <<e[1], e[2]>> /\ e \in depends /\ group[e[2]] # 0
  BY GroupedAre
<1>2. \A j \in Callback!Columns :
          <<e[1], j>> \in depends /\ group[j] = group[e[2]] => j = e[2]
  BY <1>1, RowsApart DEF Pattern
<1>3. Callback!Owner(e[1], group[e[2]]) = {e[2]}
  BY <1>1, <1>2 DEF Callback!Owner
<1>4. (CHOOSE j \in {e[2]} : TRUE) = e[2]
  OBVIOUS
<1>5. Callback!Index(e[1], group[e[2]])
        = Callback!ColPtr(e[2]) + Callback!Cardinality(Above(e[1], e[2]))
  BY <1>3, <1>4 DEF Callback!Index, Above
<1> QED BY <1>5, SameCardinality DEF Callback!ColPtr, Place, Before

(* The columns are one after the other: a column has as many places as rows.*)
LEMMA ColumnsAreConsecutive ==
    ASSUME Pattern, NEW j \in Callback!Columns
    PROVE  /\ group[j] # 0 =>
                 Cardinality(Before(j + 1)) = Cardinality(Before(j)) + Cardinality(RowsOf(j))
           /\ \A l \in 1 .. N + 1 : j < l => Cardinality(Before(j + 1)) <= Cardinality(Before(l))
<1> DEFINE own == {e \in Callback!Grouped : e[2] = j}
<1>1. N \in Nat /\ j \in 1 .. N
  BY DEF Pattern, Sized, Callback!Columns
<1>2. \A e \in Callback!Grouped : e[2] \in 1 .. N
  BY GroupedAre DEF Callback!Columns
<1>3. Before(j + 1) = Before(j) \cup own /\ Before(j) \cap own = {}
  BY <1>1, <1>2 DEF Before
<1>4. ASSUME group[j] # 0
      PROVE  Cardinality(Before(j + 1)) = Cardinality(Before(j)) + Cardinality(RowsOf(j))
  <2> DEFINE f == [r \in RowsOf(j) |-> <<r, j>>]
  <2>1. f \in [RowsOf(j) -> own]
    BY <1>4 DEF RowsOf, Callback!Grouped
  <2>2. \A a, b \in RowsOf(j) : f[a] = f[b] => a = b
    OBVIOUS
  <2>3. ASSUME NEW c \in own PROVE \E a \in RowsOf(j) : f[a] = c
    <3>1. c[1] \in RowsOf(j) /\ f[c[1]] = c
      BY GroupedAre DEF RowsOf
    <3> QED BY <3>1
  <2>4. IsFiniteSet(RowsOf(j))
    BY PatternsAreFinite
  <2> HIDE DEF f, own
  <2>5. IsFiniteSet(own) /\ Cardinality(own) = Cardinality(RowsOf(j))
    BY <2>1, <2>2, <2>3, <2>4, SameSize
  <2>6. IsFiniteSet(Before(j)) /\ Cardinality(Before(j)) \in Nat
        /\ Cardinality(RowsOf(j)) \in Nat
    BY PatternsAreFinite
  <2>7. Cardinality(Before(j) \cap own) = 0
    BY <1>3, FS_EmptySet
  <2>8. Cardinality(Before(j) \cup own)
          = Cardinality(Before(j)) + Cardinality(own) - Cardinality(Before(j) \cap own)
    BY <2>5, <2>6, FS_Union
  <2>9. Cardinality(Before(j + 1)) = Cardinality(Before(j) \cup own)
    BY <1>3, Zenon
  <2> QED BY <2>5, <2>6, <2>7, <2>8, <2>9
<1>5. ASSUME NEW l \in 1 .. N + 1, j < l
      PROVE  Cardinality(Before(j + 1)) <= Cardinality(Before(l))
  <2>1. Before(j + 1) \in SUBSET Before(l)
    BY <1>1, <1>2, <1>5 DEF Before
  <2> QED BY <2>1, PatternsAreFinite, FS_Subset
<1> QED BY <1>4, <1>5

(* The place of an entry is in its column, and further down for lower rows.*)
LEMMA PlaceInColumn ==
    ASSUME Pattern, NEW e \in Callback!Grouped
    PROVE  Place(e[1], e[2]) \in
               Cardinality(Before(e[2])) .. Cardinality(Before(e[2] + 1)) - 1
<1>1. /\ e[1] \in Callback!Columns /\ e[2] \in Callback!Columns
      /\ <<e[1], e[2]>> \in depends /\ group[e[2]] # 0 /\ e[1] \in Nat
  BY GroupedAre DEF Callback!Columns
<1>2. e[1] \in RowsOf(e[2])
  BY <1>1 DEF RowsOf
<1>3. Above(e[1], e[2]) \in SUBSET (RowsOf(e[2]) \ {e[1]})
  BY <1>1 DEF Above, RowsOf
<1>4. IsFiniteSet(RowsOf(e[2])) /\ Cardinality(RowsOf(e[2])) \in Nat
      /\ Cardinality(Before(e[2])) \in Nat /\ Cardinality(Above(e[1], e[2])) \in Nat
  BY PatternsAreFinite
<1>5. /\ IsFiniteSet(RowsOf(e[2]) \ {e[1]})
      /\ Cardinality(RowsOf(e[2]) \ {e[1]}) = Cardinality(RowsOf(e[2])) - 1
  BY <1>2, <1>4, FS_RemoveElement
<1>6. Cardinality(Above(e[1], e[2])) <= Cardinality(RowsOf(e[2])) - 1
  BY <1>3, <1>5, FS_Subset
<1>7. Cardinality(Before(e[2] + 1)) = Cardinality(Before(e[2])) + Cardinality(RowsOf(e[2]))
  BY <1>1, ColumnsAreConsecutive
<1> QED BY <1>4, <1>6, <1>7 DEF Place

LEMMA PlacesAscend ==
    ASSUME Pattern, NEW j, NEW i \in RowsOf(j), NEW l \in RowsOf(j), i < l
    PROVE  Place(i, j) < Place(l, j)
<1>1. i \in Nat /\ l \in Nat
  BY DEF RowsOf, Callback!Columns
<1>2. i \notin Above(i, j) /\ Above(i, j) \cup {i} \in SUBSET Above(l, j)
  BY <1>1 DEF Above, RowsOf, Callback!Columns
<1>3. /\ IsFiniteSet(Above(i, j)) /\ Cardinality(Above(i, j)) \in Nat
      /\ IsFiniteSet(Above(l, j)) /\ Cardinality(Above(l, j)) \in Nat
      /\ Cardinality(Before(j)) \in Nat
  BY PatternsAreFinite
<1>4. Cardinality(Above(i, j) \cup {i}) = Cardinality(Above(i, j)) + 1
  BY <1>2, <1>3, FS_AddElement
<1>5. Cardinality(Above(i, j) \cup {i}) <= Cardinality(Above(l, j))
  BY <1>2, <1>3, FS_Subset
<1> QED BY <1>3, <1>4, <1>5 DEF Place

(* No two entries have the same place. *)
LEMMA PlacesDiffer ==
    ASSUME Pattern, NEW e \in Callback!Grouped, NEW f \in Callback!Grouped,
           Place(e[1], e[2]) = Place(f[1], f[2])
    PROVE  e = f
<1>1. /\ e[1] \in 1 .. N /\ e[2] \in 1 .. N /\ f[1] \in 1 .. N /\ f[2] \in 1 .. N
      /\ e = <<e[1], e[2]>> /\ f = <<f[1], f[2]>> /\ e \in depends /\ f \in depends
      /\ N \in Nat
  BY GroupedAre DEF Callback!Columns, Pattern, Sized
<1>2. \A j : Cardinality(Before(j)) \in Nat
  BY PatternsAreFinite
<1>3. ASSUME NEW a \in Callback!Grouped, NEW b \in Callback!Grouped,
             a[2] \in 1 .. N, b[2] \in 1 .. N, a[2] < b[2]
      PROVE  Place(a[1], a[2]) < Place(b[1], b[2])
  <2>1. Cardinality(Before(a[2] + 1)) <= Cardinality(Before(b[2]))
    BY <1>1, <1>3, ColumnsAreConsecutive DEF Callback!Columns
  <2>2. Place(a[1], a[2]) \in Cardinality(Before(a[2])) .. Cardinality(Before(a[2] + 1)) - 1
        /\ Place(b[1], b[2]) \in Cardinality(Before(b[2])) .. Cardinality(Before(b[2] + 1)) - 1
    BY PlaceInColumn
  <2> QED BY <1>2, <2>1, <2>2
<1>4. Place(e[1], e[2]) \in Int
  BY <1>2, PlaceInColumn
<1>5. e[2] = f[2]
  <2>1. ~(e[2] < f[2])
    BY <1>1, <1>3, <1>4
  <2>2. ~(f[2] < e[2])
    BY <1>1, <1>3, <1>4
  <2> QED BY <1>1, <2>1, <2>2
<1>6. e[1] \in RowsOf(e[2]) /\ f[1] \in RowsOf(e[2])
  BY <1>1, <1>5 DEF RowsOf, Callback!Columns
<1>7. e[1] = f[1]
  <2>1. ~(e[1] < f[1])
    BY <1>4, <1>5, <1>6, PlacesAscend
  <2>2. ~(f[1] < e[1])
    BY <1>4, <1>5, <1>6, PlacesAscend
  <2> QED BY <1>1, <2>1, <2>2
<1> QED BY <1>1, <1>5, <1>7

(* Every place of a column is the place of an entry of it. *)
LEMMA PlacesAreFilled ==
    ASSUME Pattern, NEW j \in Callback!Columns, group[j] # 0,
           NEW p \in Cardinality(Before(j)) .. Cardinality(Before(j + 1)) - 1
    PROVE  \E i \in RowsOf(j) : Place(i, j) = p
<1> DEFINE places == Cardinality(Before(j)) .. Cardinality(Before(j + 1)) - 1
           taken == {Place(i, j) : i \in RowsOf(j)}
           f == [i \in RowsOf(j) |-> Place(i, j)]
<1>1. \A i \in RowsOf(j) : <<i, j>> \in Callback!Grouped
  BY DEF RowsOf, Callback!Grouped
<1>2. f \in [RowsOf(j) -> taken] /\ \A c \in taken : \E i \in RowsOf(j) : f[i] = c
  OBVIOUS
<1>3. ASSUME NEW a \in RowsOf(j), NEW b \in RowsOf(j), f[a] = f[b]
      PROVE  a = b
  <2>1. <<a, j>> = <<b, j>>
    <3>1. Place(a, j) = Place(b, j)
      BY <1>3
    <3>2. <<a, j>>[1] = a /\ <<a, j>>[2] = j /\ <<b, j>>[1] = b /\ <<b, j>>[2] = j
      OBVIOUS
    <3> HIDE DEF f
    <3> QED BY <1>1, <3>1, <3>2, PlacesDiffer
  <2> QED BY <2>1
<1>4. ASSUME NEW i \in RowsOf(j) PROVE Place(i, j) \in places
  <2>1. <<i, j>> \in Callback!Grouped /\ <<i, j>>[1] = i /\ <<i, j>>[2] = j
    BY <1>1
  <2> QED BY <2>1, PlaceInColumn
<1>5. taken \in SUBSET places
  BY <1>4
<1>6. IsFiniteSet(RowsOf(j)) /\ Cardinality(RowsOf(j)) \in Nat
      /\ Cardinality(Before(j)) \in Nat /\ Cardinality(Before(j + 1)) \in Nat
  BY PatternsAreFinite
<1> HIDE DEF f
<1>7. Cardinality(taken) = Cardinality(RowsOf(j))
  <2> HIDE DEF taken
  <2> QED BY <1>2, <1>3, <1>6, SameSize
<1>8. IsFiniteSet(places) /\ Cardinality(places) = Cardinality(RowsOf(j))
  <2>1. Cardinality(Before(j + 1)) = Cardinality(Before(j)) + Cardinality(RowsOf(j))
    BY ColumnsAreConsecutive
  <2>2. Cardinality(Before(j)) \in Int /\ Cardinality(Before(j + 1)) - 1 \in Int
    BY <1>6
  <2>3. /\ IsFiniteSet(places)
        /\ Cardinality(places) =
              IF Cardinality(Before(j)) > Cardinality(Before(j + 1)) - 1 THEN 0
              ELSE Cardinality(Before(j + 1)) - 1 - Cardinality(Before(j)) + 1
    BY <2>2, FS_Interval
  <2> HIDE DEF places
  <2> QED BY <1>6, <2>1, <2>3
<1>9. taken = places
  <2> HIDE DEF taken, places
  <2> QED BY <1>5, <1>7, <1>8, FS_Subset
<1> QED BY <1>9

(* As many places are allocated as there are entries. *)
LEMMA AllAllocated ==
    ASSUME Pattern
    PROVE  Callback!Nz = Cardinality(Before(N + 1))
<1> DEFINE owned == {e \in Callback!Columns \X (1 .. N) : Callback!Owner(e[1], e[2]) # {}}
           f == [e \in Callback!Grouped |-> <<e[1], group[e[2]]>>]
<1>1. Before(N + 1) = Callback!Grouped
  BY GroupedAre DEF Before, Callback!Columns, Pattern, Sized
<1>2. ASSUME NEW e \in Callback!Grouped PROVE f[e] \in owned
  <2>1. /\ e[1] \in Callback!Columns /\ e[2] \in Callback!Columns
        /\ <<e[1], e[2]>> \in depends /\ group[e[2]] \in 1 .. N
    BY GroupedAre
  <2>2. e[2] \in Callback!Owner(e[1], group[e[2]])
    BY <2>1 DEF Callback!Owner
  <2> QED BY <2>1, <2>2
<1>3. ASSUME NEW a \in Callback!Grouped, NEW b \in Callback!Grouped, f[a] = f[b]
      PROVE  a = b
  <2>1. a[1] = b[1] /\ group[a[2]] = group[b[2]]
    BY <1>3
  <2>2. /\ a[1] \in Callback!Columns /\ a[2] \in Callback!Columns /\ b[2] \in Callback!Columns
        /\ a = <<a[1], a[2]>> /\ b = <<b[1], b[2]>> /\ a \in depends /\ b \in depends
        /\ group[a[2]] # 0
    BY GroupedAre
  <2>3. a[2] = b[2]
    BY <2>1, <2>2, RowsApart DEF Pattern
  <2> QED BY <2>1, <2>2, <2>3
<1>4. ASSUME NEW c \in owned PROVE \E e \in Callback!Grouped : f[e] = c
  <2>1. c[1] \in Callback!Columns /\ c[2] \in 1 .. N /\ c = <<c[1], c[2]>>
    OBVIOUS
  <2>2. PICK j \in Callback!Columns : group[j] = c[2] /\ <<c[1], j>> \in depends
    BY DEF Callback!Owner
  <2>3. <<c[1], j>> \in Callback!Grouped /\ f[<<c[1], j>>] = <<c[1], c[2]>>
    BY <2>1, <2>2 DEF Callback!Grouped, Pattern, Sized
  <2> QED BY <2>1, <2>3
<1>5. f \in [Callback!Grouped -> owned]
  BY <1>2
<1>6. Callback!Nz = Cardinality(owned)
  BY SameCardinality DEF Callback!Nz
<1>7. IsFiniteSet(Callback!Grouped)
  BY PatternsAreFinite
<1> HIDE DEF owned, f
<1>8. Cardinality(owned) = Cardinality(Callback!Grouped)
  BY <1>3, <1>4, <1>5, <1>7, SameSize
<1> QED BY <1>1, <1>6, <1>8

LEMMA CallbackInitRight == ASSUME Sized, Callback!Init PROVE CallbackInv
<1>1. CallbackTypes
  BY DEF Callback!Init, CallbackTypes, Callback!Columns, Sized, Callback!Attempts,
         Callback!Unperturbed, Callback!Increments
<1> QED BY <1>1 DEF Callback!Init, CallbackInv, CallbackAtRest, Begun, Counted,
                    ByGroups, ByColumns, Callback!DenseIsRight

(* A return from outside the computation. *)
LEMMA FailsRight ==
    ASSUME Sized, CallbackInv, CallbackTypes', pc' = "failed", inJacobian' = 0,
           y' = Callback!Unperturbed
    PROVE  CallbackInv'
BY DEF CallbackInv, CallbackAtRest, Begun, Counted, ByGroups, ByColumns,
       Callback!DenseIsRight, Callback!Unperturbed

LEMMA ConfigurationFailsRight ==
    ASSUME Sized, CallbackInv, Callback!ConfigurationFails PROVE CallbackInv'
<1>1. CallbackTypes'
  BY DEF Callback!ConfigurationFails, Callback!matrices, CallbackInv, CallbackTypes
<1>2. pc' = "failed" /\ inJacobian' = 0 /\ y' = Callback!Unperturbed
  BY DEF Callback!ConfigurationFails, Callback!Return, CallbackInv, CallbackAtRest
<1> QED BY <1>1, <1>2, FailsRight

LEMMA BeginRight == ASSUME Sized, CallbackInv, Callback!Begin PROVE CallbackInv'
<1>1. CallbackTypes' /\ g' = 1 /\ col' = 1 /\ k' = 0 /\ exhausted' = {}
      /\ y' = Callback!Unperturbed
  BY DEF Callback!Begin, CallbackInv, CallbackTypes, Counted, Begun, CallbackAtRest
<1>2. CASE Callback!Groups > 0
  <2>1. pc' = "groups" /\ J' = Callback!Zeroed /\ Sparse' = Sparse /\ depends' = depends
        /\ Callback!Groups' > 0
    BY <1>2 DEF Callback!Begin, Callback!Groups
  <2>2. ~Sparse' => \A e \in Callback!Columns \X Callback!Columns : J'[e] = "zero"
    BY <2>1 DEF Callback!Zeroed
  <2> QED BY <1>1, <2>1, <2>2
          DEF CallbackInv, CallbackAtRest, Begun, Counted, ByGroups, ByColumns,
              Callback!DenseIsRight
<1>3. CASE ~(Callback!Groups > 0) /\ Sparse
  <2>1. pc' = "failed" /\ inJacobian' = 0
    BY <1>3 DEF Callback!Begin, Callback!Return
  <2> QED BY <1>1, <2>1, FailsRight
<1>4. CASE ~(Callback!Groups > 0) /\ ~Sparse
  <2>1. pc' = "columns"
    BY <1>4 DEF Callback!Begin
  <2>2. ByColumns'
    BY <1>1, <2>1 DEF ByColumns, Callback!Unperturbed, Callback!Columns, Sized
  <2> QED BY <1>1, <2>1, <2>2 DEF CallbackInv, CallbackAtRest, Begun, Counted,
                                  ByGroups, Callback!DenseIsRight
<1> QED BY <1>2, <1>3, <1>4

----------------------------------------------------------------------------
(* By groups. *)
LEMMA PerturbRight == ASSUME Sized, CallbackInv, Callback!Perturb PROVE CallbackInv'
<1>1. pc = "groups" /\ pc' = "groups" /\ y' = MembersDisplaced /\ g <= Callback!Groups
  BY DEF Callback!Perturb, MembersDisplaced
<1>2. CallbackTypes'
  <2>1. y' \in [Callback!Columns -> Callback!Increments]
    BY <1>1 DEF MembersDisplaced, Callback!Increments, Callback!Attempts
  <2> QED BY <2>1 DEF Callback!Perturb, Callback!matrices, CallbackInv, CallbackTypes
<1>3. MembersDisplaced' = MembersDisplaced /\ Callback!Groups' = Callback!Groups
  BY DEF Callback!Perturb, MembersDisplaced, Callback!Members, Callback!Groups
<1>4. ByGroups'
  BY <1>1, <1>3 DEF Callback!Perturb, Callback!matrices, CallbackInv, ByGroups
<1> QED BY <1>1, <1>2, <1>4
        DEF Callback!Perturb, Callback!matrices, CallbackInv, CallbackAtRest, Begun,
            Counted, ByColumns, Callback!DenseIsRight

(* With the members of a group displaced, the entries of the group are     *)
(* right: no row sees two of them.                                         *)
LEMMA GroupEntryRight ==
    ASSUME CallbackTypes, y = MembersDisplaced, ftmp' = y, g # 0,
           NEW e \in Callback!Columns \X Callback!Columns, Callback!GroupStored(e)
    PROVE  Callback!Entry(e[1], e[2], 1) = "right"
<1>1. /\ e[1] \in Callback!Columns /\ e[2] \in Callback!Columns /\ e = <<e[1], e[2]>>
      /\ e \in depends /\ group[e[2]] = g /\ ftmp' = MembersDisplaced
  BY DEF Callback!GroupStored, Callback!Members
<1>2. ftmp' # Callback!NoEvaluation
  <2>1. ftmp'[e[2]] = 1 /\ Callback!NoEvaluation[e[2]] = -1
    BY <1>1 DEF MembersDisplaced, Callback!Members, Callback!NoEvaluation
  <2> QED BY <2>1
<1>3. ASSUME NEW l \in Callback!Columns, <<e[1], l>> \in depends
      PROVE  ftmp'[l] = IF l = e[2] THEN 1 ELSE 0
  <2>1. CASE group[l] = g
    BY <1>1, <1>3, <2>1, RowsApart DEF MembersDisplaced, Callback!Members
  <2>2. CASE group[l] # g
    BY <1>1, <2>2 DEF MembersDisplaced, Callback!Members
  <2> QED BY <2>1, <2>2
<1> QED BY <1>2, <1>3 DEF Callback!Entry

LEMMA EvaluateGroupRight == ASSUME Sized, CallbackInv, Callback!EvaluateGroup PROVE CallbackInv'
<1>1. /\ pc = "groups" /\ pc' = "groups" /\ y = MembersDisplaced
      /\ g <= Callback!Groups /\ Callback!Groups > 0
      /\ ftmp' = y /\ y' = Callback!Unperturbed /\ g' = g + 1 /\ CallbackTypes
  BY DEF Callback!EvaluateGroup, Callback!GroupRestored, CallbackInv, ByGroups
<1>2. CallbackTypes'
  BY DEF Callback!EvaluateGroup, Callback!GroupRestored, Callback!Unperturbed,
         Callback!Increments, Callback!Attempts, CallbackInv, CallbackTypes
<1>3. ASSUME ~Sparse, NEW e \in Callback!Columns \X Callback!Columns
      PROVE  J'[e] = IF e \in depends /\ group[e[2]] \in 1 .. g' - 1 THEN "right" ELSE "zero"
  <2>1. J'[e] = IF Callback!GroupStored(e) THEN Callback!Entry(e[1], e[2], 1) ELSE J[e]
    BY <1>3 DEF Callback!EvaluateGroup, Callback!DenseStored
  <2>2. J[e] = IF e \in depends /\ group[e[2]] \in 1 .. g - 1 THEN "right" ELSE "zero"
    BY <1>1, <1>3 DEF CallbackInv, ByGroups
  <2>3. Callback!GroupStored(e) <=> e \in depends /\ group[e[2]] = g
    BY DEF Callback!GroupStored, Callback!Members
  <2>4. g \in Nat \ {0} /\ g' - 1 = g /\ group[e[2]] \in 0 .. N
    BY <1>1 DEF CallbackTypes
  <2>5. CASE Callback!GroupStored(e)
    <3>1. J'[e] = "right"
      BY <1>1, <2>1, <2>4, <2>5, GroupEntryRight
    <3> QED BY <2>3, <2>4, <2>5, <3>1
  <2>6. CASE ~Callback!GroupStored(e)
    <3>1. J'[e] = J[e]
      BY <2>1, <2>6
    <3>2. e \in depends => (group[e[2]] \in 1 .. g' - 1 <=> group[e[2]] \in 1 .. g - 1)
      BY <2>3, <2>4, <2>6, Sized DEF Sized
    <3> QED BY <2>2, <3>1, <3>2
  <2> QED BY <2>5, <2>6
<1>4. Sparse' = Sparse /\ depends' = depends /\ group' = group
      /\ Callback!Groups' = Callback!Groups
  BY DEF Callback!EvaluateGroup, Callback!Groups
<1>5. ByGroups'
  BY <1>1, <1>3, <1>4 DEF ByGroups
<1>6. Begun' /\ Counted' /\ CallbackAtRest' /\ ByColumns' /\ Callback!DenseIsRight'
  BY <1>1 DEF Callback!EvaluateGroup, CallbackInv, Begun, Counted, CallbackAtRest,
              ByColumns, Callback!DenseIsRight
<1> QED BY <1>2, <1>5, <1>6 DEF CallbackInv

LEMMA GroupFailsRight == ASSUME Sized, CallbackInv, Callback!GroupFails PROVE CallbackInv'
<1>1. CallbackTypes' /\ y' = Callback!Unperturbed /\ col' = 1 /\ k' = 0
  BY DEF Callback!GroupFails, Callback!GroupRestored, Callback!Unperturbed,
         Callback!Increments, Callback!Attempts, Callback!matrices,
         CallbackInv, CallbackTypes, Begun
<1>2. CASE Sparse
  <2>1. pc' = "failed" /\ inJacobian' = 0
    BY <1>2 DEF Callback!GroupFails, Callback!Return
  <2> QED BY <1>1, <2>1, FailsRight
<1>3. CASE ~Sparse
  <2>1. pc' = "columns"
    BY <1>3 DEF Callback!GroupFails
  <2>2. ByColumns'
    BY <1>1, <2>1 DEF ByColumns, Callback!Unperturbed, Callback!Columns, Sized
  <2> QED BY <1>1, <2>1, <2>2 DEF CallbackInv, CallbackAtRest, Begun, Counted,
                                  ByGroups, Callback!DenseIsRight
<1> QED BY <1>2, <1>3

LEMMA GroupsDoneRight == ASSUME Sized, CallbackInv, Callback!GroupsDone PROVE CallbackInv'
<1>1. /\ pc = "groups" /\ y = Callback!Unperturbed /\ g > Callback!Groups /\ Callback!Groups > 0
      /\ pc' = "computed" /\ inJacobian' = 0 /\ y' = y /\ J' = J
      /\ CallbackTypes /\ CallbackTypes'
      /\ Sparse' = Sparse /\ depends' = depends
  BY DEF Callback!GroupsDone, Callback!Return, Callback!matrices, CallbackInv,
         ByGroups, CallbackTypes
<1>2. ASSUME ~Sparse, NEW e \in Callback!Columns \X Callback!Columns
      PROVE  J[e] = IF e \in depends THEN "right" ELSE "zero"
  <2>1. group[e[2]] \in 1 .. Callback!Groups /\ Callback!Groups \in Nat
    BY <1>1, GroupsAreNumbered
  <2>2. group[e[2]] \in 1 .. g - 1
    BY <1>1, <2>1 DEF CallbackTypes
  <2> QED BY <1>1, <1>2, <2>2 DEF CallbackInv, ByGroups
<1> QED BY <1>1, <1>2 DEF CallbackInv, CallbackAtRest, Begun, Counted, ByGroups,
                          ByColumns, Callback!DenseIsRight

----------------------------------------------------------------------------
(* By columns. *)

(* A column is done, and its entries are right or it was given up. *)
LEMMA ColumnStoredRight ==
    ASSUME Sized, CallbackInv, pc = "columns", col \in Callback!Columns,
           NEW inc, Callback!ColumnStored(inc),
           \/ /\ exhausted' = exhausted
              /\ \A i \in Callback!Columns : Callback!Entry(i, col, inc) = "right"
           \/ exhausted' = exhausted \cup {col},
           UNCHANGED <<Sparse, depends, group, pc, g, inJacobian>>
    PROVE  CallbackInv'
<1>1. col' = col + 1 /\ k' = 0 /\ y' = [y EXCEPT ![col] = 0]
      /\ \A e \in Callback!Columns \X Callback!Columns :
            J'[e] = IF e[2] = col THEN Callback!Entry(e[1], col, inc) ELSE J[e]
  BY DEF Callback!ColumnStored
<1>2. CallbackTypes'
  <2>1. col' \in 1 .. N + 1 /\ k' \in 0 .. Callback!Attempts - 1
    BY <1>1 DEF Callback!Columns, Sized, Callback!Attempts
  <2>2. y' \in [Callback!Columns -> Callback!Increments]
    BY <1>1 DEF CallbackInv, CallbackTypes, Callback!Increments, Callback!Attempts
  <2>3. exhausted' \subseteq Callback!Columns
    BY DEF CallbackInv, CallbackTypes
  <2> QED BY <2>1, <2>2, <2>3 DEF CallbackInv, CallbackTypes
<1>3. \A j \in Callback!Columns : y'[j] = 0
  BY <1>1 DEF CallbackInv, CallbackTypes, ByColumns
<1>4. ASSUME NEW e \in Callback!Columns \X Callback!Columns, e[2] < col'
      PROVE  J'[e] = "right" \/ e[2] \in exhausted'
  <2>1. e[1] \in Callback!Columns /\ e[2] \in Nat
    BY DEF Callback!Columns
  <2>2. CASE e[2] = col
    BY <1>1, <2>1, <2>2
  <2>3. CASE e[2] # col
    <3>1. e[2] < col /\ J'[e] = J[e]
      BY <1>1, <1>4, <2>1, <2>3 DEF Callback!Columns, Sized
    <3> QED BY <3>1 DEF CallbackInv, ByColumns
  <2> QED BY <2>2, <2>3
<1> QED BY <1>2, <1>3, <1>4
        DEF CallbackInv, CallbackAtRest, Begun, Counted, ByGroups, ByColumns,
            Callback!DenseIsRight

LEMMA EvaluateColumnRight == ASSUME Sized, CallbackInv, Callback!EvaluateColumn PROVE CallbackInv'
<1>1. /\ pc = "columns" /\ col \in Callback!Columns /\ ftmp' = [y EXCEPT ![col] = k + 1]
      /\ y \in [Callback!Columns -> Callback!Increments]
      /\ \A j \in Callback!Columns : j # col => y[j] = 0
      /\ k \in 0 .. Callback!Attempts - 1
  BY DEF Callback!EvaluateColumn, CallbackInv, CallbackTypes, ByColumns,
         Callback!Columns, Sized
<1>2. \A l \in Callback!Columns : ftmp'[l] = IF l = col THEN k + 1 ELSE 0
  BY <1>1
<1>3. ftmp' # Callback!NoEvaluation
  <2>1. ftmp'[col] = k + 1 /\ Callback!NoEvaluation[col] = -1
    BY <1>1, <1>2 DEF Callback!NoEvaluation
  <2> QED BY <1>1, <2>1
<1>4. \A i \in Callback!Columns : Callback!Entry(i, col, k + 1) = "right"
  BY <1>2, <1>3 DEF Callback!Entry
<1> QED BY <1>1, <1>4, ColumnStoredRight DEF Callback!EvaluateColumn

LEMMA ColumnFailsRight == ASSUME Sized, CallbackInv, Callback!ColumnFails PROVE CallbackInv'
<1>1. pc = "columns" /\ col \in Callback!Columns /\ k \in 0 .. Callback!Attempts - 1
  BY DEF Callback!ColumnFails, CallbackInv, CallbackTypes, Callback!Columns, Sized
<1>2. CASE k + 1 < Callback!Attempts
  <2>1. y' = [y EXCEPT ![col] = k + 1] /\ k' = k + 1
        /\ UNCHANGED <<Sparse, depends, group, pc, g, inJacobian, J, col, exhausted>>
    BY <1>2 DEF Callback!ColumnFails
  <2>2. CallbackTypes'
    <3>1. k' \in 0 .. Callback!Attempts - 1 /\ k + 1 \in Callback!Increments
      BY <1>1, <1>2, <2>1 DEF Callback!Attempts, Callback!Increments
    <3> QED BY <2>1, <3>1 DEF CallbackInv, CallbackTypes
  <2>3. \A j \in Callback!Columns : j # col => y'[j] = 0
    BY <1>1, <2>1 DEF CallbackInv, CallbackTypes, ByColumns
  <2>4. ByColumns'
    BY <1>1, <2>1, <2>3 DEF CallbackInv, ByColumns
  <2> QED BY <1>1, <2>1, <2>2, <2>4 DEF CallbackInv, CallbackAtRest, Begun, Counted,
                                        ByGroups, Callback!DenseIsRight
<1>3. CASE ~(k + 1 < Callback!Attempts)
  BY <1>1, <1>3, ColumnStoredRight DEF Callback!ColumnFails
<1> QED BY <1>2, <1>3

LEMMA ColumnsDoneRight == ASSUME Sized, CallbackInv, Callback!ColumnsDone PROVE CallbackInv'
<1>1. /\ pc = "columns" /\ col > N /\ pc' = "computed" /\ inJacobian' = 0 /\ y' = y
      /\ J' = J /\ exhausted' = exhausted /\ CallbackTypes' /\ CallbackTypes
  BY DEF Callback!ColumnsDone, Callback!Return, Callback!matrices, CallbackInv,
         CallbackTypes
<1>2. \A j \in Callback!Columns : j < col
  BY <1>1 DEF Callback!Columns, CallbackTypes, Sized
<1>3. y' = Callback!Unperturbed
  <2>1. \A j \in Callback!Columns : y[j] = 0
    BY <1>1, <1>2 DEF CallbackInv, ByColumns, Callback!Columns, Sized, CallbackTypes
  <2> QED BY <1>1, <2>1 DEF CallbackTypes, Callback!Unperturbed
<1>4. \A e \in Callback!Columns \X Callback!Columns : J'[e] = "right" \/ e[2] \in exhausted'
  BY <1>1, <1>2 DEF CallbackInv, ByColumns
<1> QED BY <1>1, <1>3, <1>4 DEF CallbackInv, CallbackAtRest, Begun, Counted, ByGroups,
                                ByColumns, Callback!DenseIsRight

LEMMA CallAgainRight == ASSUME Sized, CallbackInv, Callback!CallAgain PROVE CallbackInv'
<1>1. CallbackTypes' /\ pc' = "called" /\ y' = Callback!Unperturbed /\ inJacobian' = 0
      /\ g' = 1 /\ col' = 1 /\ k' = 0 /\ exhausted' = {}
  BY DEF Callback!CallAgain, Callback!Returned, CallbackInv, CallbackTypes,
         CallbackAtRest, Callback!Attempts, Sized
<1> QED BY <1>1 DEF CallbackInv, CallbackAtRest, Begun, Counted, ByGroups, ByColumns,
                    Callback!DenseIsRight

LEMMA CallbackNextRight ==
    ASSUME Sized, CallbackInv, [Callback!Next]_(Callback!vars) PROVE CallbackInv'
<1>1. CASE UNCHANGED Callback!vars
  <2>1. CallbackTypes'
    BY <1>1 DEF Callback!vars, CallbackInv, CallbackTypes
  <2>2. Callback!Groups' = Callback!Groups /\ MembersDisplaced' = MembersDisplaced
    BY <1>1 DEF Callback!vars, Callback!Groups, MembersDisplaced, Callback!Members
  <2>3. ByGroups'
    BY <1>1, <2>2 DEF Callback!vars, CallbackInv, ByGroups
  <2> QED BY <1>1, <2>1, <2>3
          DEF Callback!vars, CallbackInv, CallbackAtRest, Begun, Counted, ByColumns,
              Callback!DenseIsRight
<1> QED BY <1>1, ConfigurationFailsRight, BeginRight, PerturbRight, EvaluateGroupRight,
           GroupFailsRight, GroupsDoneRight, EvaluateColumnRight, ColumnFailsRight,
           ColumnsDoneRight, CallAgainRight DEF Callback!Next

----------------------------------------------------------------------------
(* The sparse matrix is filled group by group. *)
Filled(e) ==
    /\ data[Place(e[1], e[2])] = "right"
    /\ rowvals[Place(e[1], e[2])] = e[1]

SparseByGroups ==
    Sparse /\ pc = "groups" => \A e \in Callback!Grouped : group[e[2]] < g => Filled(e)

OnlyDense == pc = "columns" => ~Sparse

SparseInv == SparseByGroups /\ OnlyDense /\ Callback!SparseIsRight

(* With every entry in its place, the matrix is in compressed columns. *)
CompressedColumns ==
    /\ Callback!ColPtr(N + 1) = Callback!Nz
    /\ \A j \in Callback!Columns : group[j] # 0 =>
          /\ {rowvals[p] : p \in Callback!ColPtr(j) .. Callback!ColPtr(j + 1) - 1}
                = {i \in Callback!Columns : <<i, j>> \in depends}
          /\ \A p \in Callback!ColPtr(j) .. Callback!ColPtr(j + 1) - 1 : data[p] = "right"

LEMMA FilledIsCompressed ==
    ASSUME Pattern, \A e \in Callback!Grouped : Filled(e)
    PROVE  CompressedColumns
<1>1. \A j : Callback!ColPtr(j) = Cardinality(Before(j))
  BY SameCardinality DEF Callback!ColPtr, Before
<1>2. Callback!ColPtr(N + 1) = Callback!Nz
  BY <1>1, AllAllocated
<1>3. ASSUME NEW j \in Callback!Columns, group[j] # 0
      PROVE  /\ {rowvals[p] : p \in Callback!ColPtr(j) .. Callback!ColPtr(j + 1) - 1}
                   = {i \in Callback!Columns : <<i, j>> \in depends}
             /\ \A p \in Callback!ColPtr(j) .. Callback!ColPtr(j + 1) - 1 : data[p] = "right"
  <2> DEFINE column == Cardinality(Before(j)) .. Cardinality(Before(j + 1)) - 1
  <2>1. ASSUME NEW i \in RowsOf(j)
        PROVE  /\ Place(i, j) \in column
               /\ data[Place(i, j)] = "right" /\ rowvals[Place(i, j)] = i
    <3>1. <<i, j>> \in Callback!Grouped /\ <<i, j>>[1] = i /\ <<i, j>>[2] = j
      BY <1>3 DEF RowsOf, Callback!Grouped
    <3> QED BY <3>1, PlaceInColumn DEF Filled
  <2>2. \A p \in column : \E i \in RowsOf(j) : Place(i, j) = p
    BY <1>3, PlacesAreFilled
  <2> HIDE DEF column
  <2>3. {rowvals[p] : p \in column} = RowsOf(j)
    BY <2>1, <2>2
  <2>4. \A p \in column : data[p] = "right"
    BY <2>1, <2>2
  <2>5. column = Callback!ColPtr(j) .. Callback!ColPtr(j + 1) - 1
    BY <1>1 DEF column
  <2> QED BY <2>3, <2>4, <2>5 DEF RowsOf
<1> QED BY <1>2, <1>3 DEF CompressedColumns

LEMMA PlaceIsCell ==
    ASSUME Pattern, Sparse, NEW e \in Callback!Grouped
    PROVE  Place(e[1], e[2]) \in Callback!Cells
<1>1. e[2] \in Callback!Columns /\ N \in Nat /\ e[2] \in 1 .. N
  BY GroupedAre DEF Callback!Columns, Pattern, Sized
<1>2. Place(e[1], e[2]) \in Cardinality(Before(e[2])) .. Cardinality(Before(e[2] + 1)) - 1
  BY PlaceInColumn
<1>3. Cardinality(Before(e[2] + 1)) <= Cardinality(Before(N + 1))
  BY <1>1, ColumnsAreConsecutive
<1>4. /\ Cardinality(Before(e[2])) \in Nat /\ Cardinality(Before(e[2] + 1)) \in Nat
      /\ Cardinality(Before(N + 1)) \in Nat
  BY PatternsAreFinite
<1>5. Callback!Cells = 0 .. Cardinality(Before(N + 1)) - 1
  BY AllAllocated DEF Callback!Cells
<1> QED BY <1>2, <1>3, <1>4, <1>5

(* A group fills the places of its entries and no others. *)
LEMMA GroupFilled ==
    ASSUME Sized, CallbackInv, SparseInv, Callback!EvaluateGroup, Sparse,
           NEW e \in Callback!Grouped, group[e[2]] < g'
    PROVE  Filled(e)'
<1> DEFINE Kept(p) == {f \in Callback!Columns \X Callback!Columns :
                          Callback!GroupStored(f) /\ Callback!Index(f[1], g) = p}
           place == Place(e[1], e[2])
<1>1. /\ pc = "groups" /\ y = MembersDisplaced /\ ftmp' = y /\ g' = g + 1
      /\ g \in Nat \ {0} /\ CallbackTypes /\ Pattern
      /\ depends' = depends /\ group' = group
  BY DEF Callback!EvaluateGroup, CallbackInv, ByGroups, CallbackTypes, Pattern
<1>2. /\ e[1] \in Callback!Columns /\ e[2] \in Callback!Columns
      /\ e = <<e[1], e[2]>> /\ e \in depends /\ group[e[2]] \in 1 .. N
  BY <1>1, GroupedAre
<1>3. place \in Callback!Cells
  BY <1>1, PlaceIsCell
<1>4. /\ data'[place] = IF Kept(place) = {} THEN data[place]
                        ELSE Callback!Entry((CHOOSE f \in Kept(place) : TRUE)[1],
                                            (CHOOSE f \in Kept(place) : TRUE)[2], 1)
      /\ rowvals'[place] = IF Kept(place) = {} THEN rowvals[place]
                           ELSE (CHOOSE f \in Kept(place) : TRUE)[1]
  BY <1>3 DEF Callback!EvaluateGroup, Callback!SparseStored
<1>5. ASSUME NEW f \in Callback!Columns \X Callback!Columns, Callback!GroupStored(f)
      PROVE  /\ f \in Callback!Grouped /\ group[f[2]] = g
             /\ Callback!Index(f[1], g) = place => f = e
  <2>1. f \in Callback!Grouped /\ group[f[2]] = g
    BY <1>1, <1>5 DEF Callback!GroupStored, Callback!Members, Callback!Grouped
  <2>2. Callback!Index(f[1], g) = Place(f[1], f[2])
    BY <1>1, <2>1, IndexIsPlace
  <2>3. ASSUME Place(f[1], f[2]) = Place(e[1], e[2]) PROVE f = e
    BY <1>1, <2>1, <2>3, PlacesDiffer
  <2> QED BY <2>1, <2>2, <2>3
<1>6. Place(e[1], e[2])' = place
  BY <1>1 DEF Place, Before, Above, Callback!Grouped, Callback!Columns
<1>7. CASE group[e[2]] = g
  <2>1. Callback!GroupStored(e) /\ Callback!Index(e[1], g) = place
    BY <1>1, <1>2, <1>7, IndexIsPlace DEF Callback!GroupStored, Callback!Members
  <2>2. e \in Kept(place) /\ \A f \in Kept(place) : f = e
    BY <1>2, <1>5, <2>1
  <2> HIDE DEF Kept, place
  <2>3. Kept(place) = {e} /\ Kept(place) # {}
    BY <2>2
  <2>4. (CHOOSE f \in Kept(place) : TRUE) = e
    BY <2>3
  <2>5. e \in Callback!Columns \X Callback!Columns
    BY <1>2
  <2>6. Callback!Entry(e[1], e[2], 1) = "right"
    BY <1>1, <2>1, <2>5, GroupEntryRight
  <2>7. data'[place] = "right" /\ rowvals'[place] = e[1]
    BY <1>4, <2>3, <2>4, <2>6
  <2> QED BY <1>6, <2>7 DEF Filled
<1>8. CASE group[e[2]] # g
  <2>1. group[e[2]] < g
    BY <1>1, <1>2, <1>8 DEF Sized
  <2>2. Kept(place) = {}
    BY <1>5, <1>8
  <2>3. Filled(e)
    BY <1>1, <2>1 DEF SparseInv, SparseByGroups
  <2> HIDE DEF Kept
  <2>4. data'[place] = data[place] /\ rowvals'[place] = rowvals[place]
    BY <1>4, <2>2
  <2> QED BY <1>6, <2>3, <2>4 DEF Filled
<1> QED BY <1>7, <1>8

LEMMA SparseInitRight == ASSUME Callback!Init PROVE SparseInv
BY DEF Callback!Init, SparseInv, SparseByGroups, OnlyDense, Callback!SparseIsRight

LEMMA SparseNextRight ==
    ASSUME Sized, CallbackInv, SparseInv, [Callback!Next]_(Callback!vars)
    PROVE  SparseInv'
<1>1. /\ CallbackTypes /\ Pattern
      /\ \A e \in Callback!Grouped : e[2] \in Callback!Columns /\ group[e[2]] \in 1 .. N
  BY GroupedAre DEF CallbackInv, Pattern
<1>2. CASE Callback!ConfigurationFails \/ Callback!CallAgain
  <2>1. pc' \in {"failed", "called"}
    BY <1>2 DEF Callback!ConfigurationFails, Callback!Return, Callback!CallAgain
  <2> QED BY <2>1 DEF SparseInv, SparseByGroups, OnlyDense, Callback!SparseIsRight
<1>3. CASE Callback!Begin
  <2>1. /\ g' = 1 /\ group' = group /\ Callback!Grouped' = Callback!Grouped
        /\ pc' \in {"groups", "columns", "failed"} /\ Sparse' = Sparse
        /\ pc' = "columns" => ~Sparse
    BY <1>3 DEF Callback!Begin, Callback!Return, Callback!Grouped, CallbackInv, Counted
  <2>2. \A e \in Callback!Grouped : ~(group[e[2]] < 1)
    BY <1>1 DEF Sized
  <2> QED BY <2>1, <2>2 DEF SparseInv, SparseByGroups, OnlyDense, Callback!SparseIsRight
<1>4. CASE Callback!Perturb
  <2>1. /\ pc = "groups" /\ pc' = "groups"
        /\ UNCHANGED <<Sparse, depends, group, g, data, rowvals>>
    BY <1>4 DEF Callback!Perturb, Callback!matrices
  <2>2. Callback!Grouped' = Callback!Grouped /\ \A e : Filled(e)' <=> Filled(e)
    BY <2>1 DEF Callback!Grouped, Filled, Place, Before, Above, Callback!Columns
  <2> QED BY <2>1, <2>2 DEF SparseInv, SparseByGroups, OnlyDense, Callback!SparseIsRight
<1>5. CASE Callback!EvaluateGroup
  <2>1. /\ pc = "groups" /\ pc' = "groups" /\ Sparse' = Sparse /\ group' = group
        /\ Callback!Grouped' = Callback!Grouped
    BY <1>5 DEF Callback!EvaluateGroup, Callback!Grouped
  <2>2. Sparse' /\ pc' = "groups" =>
            \A e \in Callback!Grouped' : group'[e[2]] < g' => Filled(e)'
    BY <1>5, <2>1, GroupFilled
  <2> QED BY <2>1, <2>2 DEF SparseInv, SparseByGroups, OnlyDense, Callback!SparseIsRight
<1>6. CASE Callback!GroupFails
  BY <1>6 DEF Callback!GroupFails, Callback!Return,
              SparseInv, SparseByGroups, OnlyDense, Callback!SparseIsRight
<1>7. CASE Callback!GroupsDone
  <2>1. /\ pc = "groups" /\ pc' = "computed" /\ g > Callback!Groups /\ Callback!Groups > 0
        /\ UNCHANGED <<Sparse, depends, group, data, rowvals>>
    BY <1>7 DEF Callback!GroupsDone, Callback!Return, Callback!matrices, CallbackInv, ByGroups
  <2>2. ASSUME Sparse PROVE CompressedColumns
    <3>1. Callback!Groups \in Nat /\ \A j \in Callback!Columns : group[j] \in 1 .. Callback!Groups
      BY <1>1, <2>1, GroupsAreNumbered
    <3>2. \A e \in Callback!Grouped : group[e[2]] < g
      BY <1>1, <2>1, <3>1 DEF CallbackTypes
    <3> QED BY <1>1, <2>1, <2>2, <3>2, FilledIsCompressed DEF SparseInv, SparseByGroups
  <2>3. CompressedColumns' <=> CompressedColumns
    BY <2>1 DEF CompressedColumns, Callback!ColPtr, Callback!Nz, Callback!Owner,
                Callback!Grouped, Callback!Columns
  <2>4. Callback!SparseIsRight'
    BY <2>1, <2>2, <2>3 DEF Callback!SparseIsRight, CompressedColumns
  <2> QED BY <2>1, <2>4 DEF SparseInv, SparseByGroups, OnlyDense
<1>8. CASE Callback!EvaluateColumn \/ Callback!ColumnFails
  BY <1>8 DEF Callback!EvaluateColumn, Callback!ColumnFails,
              SparseInv, SparseByGroups, OnlyDense, Callback!SparseIsRight
<1>9. CASE Callback!ColumnsDone
  BY <1>9 DEF Callback!ColumnsDone, Callback!Return,
              SparseInv, SparseByGroups, OnlyDense, Callback!SparseIsRight
<1>10. CASE UNCHANGED Callback!vars
  <2>1. UNCHANGED <<Sparse, depends, group, pc, g, data, rowvals>>
    BY <1>10 DEF Callback!vars
  <2>2. Callback!Grouped' = Callback!Grouped /\ \A e : Filled(e)' <=> Filled(e)
    BY <2>1 DEF Callback!Grouped, Filled, Place, Before, Above, Callback!Columns
  <2>3. CompressedColumns' <=> CompressedColumns
    BY <2>1 DEF CompressedColumns, Callback!ColPtr, Callback!Nz, Callback!Owner,
                Callback!Grouped, Callback!Columns
  <2>4. Callback!SparseIsRight'
    BY <2>1, <2>3 DEF SparseInv, Callback!SparseIsRight, CompressedColumns
  <2> QED BY <2>1, <2>2, <2>4 DEF SparseInv, SparseByGroups, OnlyDense
<1> QED BY <1>2, <1>3, <1>4, <1>5, <1>6, <1>7, <1>8, <1>9, <1>10 DEF Callback!Next

(* The types of the matrices and of what they are made from. *)
LEMMA CallbackInitTyped == ASSUME Sized, Callback!Init PROVE Callback!TypeOK
<1>1. CallbackTypes
  BY CallbackInitRight DEF CallbackInv
<1>2. /\ J \in [Callback!Columns \X Callback!Columns -> {"old", "zero", "right", "wrong"}]
      /\ data \in [Callback!Cells -> {"old", "right", "wrong"}]
      /\ rowvals \in [Callback!Cells -> Callback!Columns \cup {0}]
  BY DEF Callback!Init
<1>3. g \in 1 .. N + 1 /\ k \in 0 .. Callback!Attempts
  BY DEF Callback!Init, Sized, Callback!Attempts
<1> QED BY <1>1, <1>2, <1>3 DEF Callback!Init, Callback!TypeOK, CallbackTypes

LEMMA EntryIs ==
    \A i, j, inc : Callback!Entry(i, j, inc) \in {"right", "wrong"}
BY DEF Callback!Entry

LEMMA CallbackNextTyped ==
    ASSUME Sized, CallbackInv, Callback!TypeOK, [Callback!Next]_(Callback!vars)
    PROVE  Callback!TypeOK'
<1>1. CallbackInv' /\ CallbackTypes' /\ CallbackTypes
  BY CallbackNextRight DEF CallbackInv
<1> DEFINE Entries == Callback!Columns \X Callback!Columns
           Rest == /\ pc \in {"called", "groups", "columns", "computed", "failed"}
                   /\ ftmp \in [Callback!Columns -> Callback!Increments]
                               \cup {Callback!NoEvaluation}
                   /\ J \in [Entries -> {"old", "zero", "right", "wrong"}]
                   /\ data \in [Callback!Cells -> {"old", "right", "wrong"}]
                   /\ rowvals \in [Callback!Cells -> Callback!Columns \cup {0}]
                   /\ inJacobian \in {0, 1}
<1>2. Callback!Cells' = Callback!Cells
  <2>1. UNCHANGED <<Sparse, depends, group>>
    BY DEF Callback!Next, Callback!vars, Callback!ConfigurationFails, Callback!Begin,
           Callback!Perturb, Callback!EvaluateGroup, Callback!GroupFails, Callback!GroupsDone,
           Callback!EvaluateColumn, Callback!ColumnFails, Callback!ColumnsDone,
           Callback!CallAgain
  <2> QED BY <2>1 DEF Callback!Cells, Callback!Nz, Callback!Owner, Callback!Columns
<1>3. Rest
  BY DEF Callback!TypeOK
<1>4. Rest' /\ g' \in 1 .. N + 1
  <2>1. CASE Callback!ConfigurationFails \/ Callback!GroupsDone \/ Callback!ColumnsDone
    BY <1>2, <1>3, <2>1 DEF Callback!ConfigurationFails, Callback!GroupsDone,
         Callback!ColumnsDone, Callback!Return, Callback!matrices, Callback!TypeOK
  <2>2. CASE Callback!Begin
    BY <1>2, <1>3, <2>2 DEF Callback!Begin, Callback!Zeroed, Callback!Return, Callback!TypeOK
  <2>3. CASE Callback!Perturb \/ Callback!GroupFails
    BY <1>2, <1>3, <2>3 DEF Callback!Perturb, Callback!GroupFails, Callback!Return,
         Callback!matrices, Callback!TypeOK
  <2>4. CASE Callback!EvaluateGroup
    <3>1. UNCHANGED <<pc, inJacobian>> /\ ftmp' = y /\ g' = g + 1 /\ g <= Callback!Groups
          /\ Callback!Groups > 0 /\ y \in [Callback!Columns -> Callback!Increments]
      BY <2>4 DEF Callback!EvaluateGroup, CallbackInv, ByGroups, CallbackTypes
    <3>2. g' \in 1 .. N + 1
      BY <1>1, <3>1, GroupsAreNumbered DEF Callback!TypeOK, Sized
    <3>3. CASE ~Sparse
      <4>1. J' = [e \in Entries |->
                     IF Callback!GroupStored(e) THEN Callback!Entry(e[1], e[2], 1) ELSE J[e]]
            /\ UNCHANGED <<data, rowvals>>
        BY <2>4, <3>3 DEF Callback!EvaluateGroup, Callback!DenseStored
      <4>2. J' \in [Entries -> {"old", "zero", "right", "wrong"}]
        BY <1>3, <4>1, EntryIs
      <4> QED BY <1>2, <1>3, <3>1, <3>2, <4>1, <4>2
    <3>4. CASE Sparse
      <4> DEFINE Kept(p) == {e \in Entries : Callback!GroupStored(e)
                                              /\ Callback!Index(e[1], g) = p}
                 One(p) == CHOOSE e \in Kept(p) : TRUE
      <4>1. /\ data' = [p \in Callback!Cells |->
                           IF Kept(p) = {} THEN data[p]
                           ELSE Callback!Entry(One(p)[1], One(p)[2], 1)]
            /\ rowvals' = [p \in Callback!Cells |->
                              IF Kept(p) = {} THEN rowvals[p] ELSE One(p)[1]]
            /\ UNCHANGED J
        BY <2>4, <3>4 DEF Callback!EvaluateGroup, Callback!SparseStored
      <4>2. \A p : Kept(p) # {} => One(p)[1] \in Callback!Columns
        <5> SUFFICES ASSUME NEW p, Kept(p) # {} PROVE One(p)[1] \in Callback!Columns
          OBVIOUS
        <5>1. One(p) \in Kept(p)
          BY Zenon
        <5> QED BY <5>1
      <4> HIDE DEF Kept, One
      <4>3. /\ data' \in [Callback!Cells -> {"old", "right", "wrong"}]
            /\ rowvals' \in [Callback!Cells -> Callback!Columns \cup {0}]
        BY <1>3, <4>1, <4>2, EntryIs
      <4> QED BY <1>2, <1>3, <3>1, <3>2, <4>1, <4>3
    <3> QED BY <3>3, <3>4
  <2>5. ASSUME NEW inc, Callback!ColumnStored(inc)
        PROVE  J' \in [Entries -> {"old", "zero", "right", "wrong"}]
    BY <1>3, <2>5, EntryIs DEF Callback!ColumnStored
  <2>6. CASE Callback!EvaluateColumn
    <3>1. UNCHANGED <<pc, g, data, rowvals, inJacobian>> /\ ftmp' = [y EXCEPT ![col] = k + 1]
          /\ J' \in [Entries -> {"old", "zero", "right", "wrong"}]
      BY <2>5, <2>6 DEF Callback!EvaluateColumn
    <3>2. k + 1 \in Callback!Increments /\ y \in [Callback!Columns -> Callback!Increments]
      BY <1>1 DEF CallbackTypes, Callback!Increments, Callback!Attempts
    <3> QED BY <1>2, <1>3, <3>1, <3>2 DEF Callback!TypeOK
  <2>7. CASE Callback!ColumnFails
    <3>1. UNCHANGED <<pc, g, data, rowvals, inJacobian, ftmp>>
          /\ J' \in [Entries -> {"old", "zero", "right", "wrong"}]
      BY <1>3, <2>5, <2>7 DEF Callback!ColumnFails
    <3> QED BY <1>2, <1>3, <3>1 DEF Callback!TypeOK
  <2>8. CASE Callback!CallAgain
    <3>1. g' = 1 /\ pc' = "called" /\ inJacobian' = inJacobian
          /\ ftmp' = Callback!NoEvaluation
          /\ J' = [e \in Entries |-> "old"] /\ data' = [p \in Callback!Cells |-> "old"]
          /\ rowvals' = [p \in Callback!Cells |-> 0]
      BY <1>2, <2>8 DEF Callback!CallAgain
    <3> QED BY <1>2, <1>3, <3>1 DEF Sized
  <2>9. CASE UNCHANGED Callback!vars
    BY <1>2, <1>3, <2>9 DEF Callback!vars, Callback!TypeOK
  <2> HIDE DEF Rest
  <2> QED BY <2>1, <2>2, <2>3, <2>4, <2>6, <2>7, <2>8, <2>9 DEF Callback!Next
<1>5. k' \in 0 .. Callback!Attempts
  BY <1>1 DEF CallbackTypes, Callback!Attempts
<1> QED BY <1>1, <1>4, <1>5 DEF Callback!TypeOK, CallbackTypes

(* Whatever fails, the callback returns the solver's states as they were.  *)
THEOREM StatesAreLeft == ASSUME Sized PROVE Callback!Spec => []Callback!LeavesStates
<1>1. Callback!Init => CallbackInv
  BY CallbackInitRight
<1>2. CallbackInv /\ [Callback!Next]_(Callback!vars) => CallbackInv'
  BY CallbackNextRight
<1>3. CallbackInv => Callback!LeavesStates
  BY DEF CallbackInv, CallbackAtRest, Callback!LeavesStates, Callback!Returned
<1> QED BY <1>1, <1>2, <1>3, PTL DEF Callback!Spec

(* A Jacobian that is reported as computed is right: a dense one in every  *)
(* entry but for columns all attempts at which failed, and a sparse one is *)
(* in compressed columns, with every row of a column once.                 *)
THEOREM JacobianIsRight == ASSUME Sized PROVE Callback!Spec => []Callback!ComputedIsRight
<1>1. Callback!Init => CallbackInv /\ SparseInv
  BY CallbackInitRight, SparseInitRight
<1>2. CallbackInv /\ SparseInv /\ [Callback!Next]_(Callback!vars) => (CallbackInv /\ SparseInv)'
  BY CallbackNextRight, SparseNextRight
<1>3. CallbackInv /\ SparseInv => Callback!ComputedIsRight
  BY DEF CallbackInv, SparseInv, Callback!ComputedIsRight
<1> QED BY <1>1, <1>2, <1>3, PTL DEF Callback!Spec

----------------------------------------------------------------------------
(* The inputs along their derivatives.                                     *)
NumbersAre ==
    /\ Values \subseteq Int /\ Rates \subseteq Int /\ StartValue \in Int
    /\ Horizon \in Nat

IpDatas == [useDerivatives : BOOLEAN, inputsT0 : [Inputs -> Int],
            inputDerivatives : [Inputs -> Int], derivativeTime : Signals!Times]
Lines == [Inputs -> [at : Signals!Times, value : Int, rate : Int]]
Saves == [time : Signals!Times, inputs : [Inputs -> Int], ipData : IpDatas, signal : Lines]

SignalsTypes ==
    /\ time \in Signals!Times /\ inputs \in [Inputs -> Int]
    /\ ipData \in IpDatas /\ signal \in Lines
    /\ saved \subseteq Saves

(* The lines of the instance are those the master stated. *)
Agree(ip, u, lines) ==
    \A i \in Inputs :
        IF ip.useDerivatives
        THEN lines[i] = [at |-> ip.derivativeTime, value |-> ip.inputsT0[i],
                         rate |-> ip.inputDerivatives[i]]
        ELSE lines[i].rate = 0 /\ lines[i].value = u[i]

(* At a communication point the lines in use begin there. *)
LinesBegin(t, ip, u, lines) ==
    ip.useDerivatives =>
        /\ ip.derivativeTime = t
        /\ \A i \in Inputs : lines[i].value = u[i]

SavesAgree ==
    \A s \in saved : Agree(s.ipData, s.inputs, s.signal)
                     /\ LinesBegin(s.time, s.ipData, s.inputs, s.signal)

Followed ==
    /\ Agree(ipData, inputs, signal)
    /\ stepping = "no" => LinesBegin(time, ipData, inputs, signal) /\ evaluated = Signals!Idle
    /\ SavesAgree
    /\ Signals!EvaluatedOnSignal /\ Signals!InputsPutBack

SignalsInv == SignalsTypes /\ Followed

----------------------------------------------------------------------------
(* The value of a line. *)
OnLine(lines, i, t) == lines[i].value + lines[i].rate * (t - lines[i].at)

(* Moving the inputs to a time puts them on the lines there, in use or not. *)
LEMMA ExtrapolatedOnLines ==
    ASSUME NumbersAre, SignalsTypes, Agree(ipData, inputs, signal), NEW t \in Signals!Times
    PROVE  /\ Signals!Extrapolated(t) \in [Inputs -> Int]
           /\ \A i \in Inputs : Signals!Extrapolated(t)[i] = Signals!On(i, t)
           /\ ~ipData.useDerivatives => Signals!Extrapolated(t) = inputs
<1> USE DEF NumbersAre, SignalsTypes, IpDatas, Lines, Signals!Times, Agree,
            Signals!Extrapolated, Signals!On
<1>1. CASE ipData.useDerivatives
  <2>1. Signals!Extrapolated(t) \in [Inputs -> Int]
    BY <1>1
  <2>2. ASSUME NEW i \in Inputs PROVE Signals!Extrapolated(t)[i] = Signals!On(i, t)
    <3>1. signal[i] = [at |-> ipData.derivativeTime, value |-> ipData.inputsT0[i],
                       rate |-> ipData.inputDerivatives[i]]
      BY <1>1
    <3>2. Signals!Extrapolated(t)[i] = ipData.inputsT0[i]
                               + ipData.inputDerivatives[i] * (t - ipData.derivativeTime)
      BY <1>1
    <3> QED BY <3>1, <3>2
  <2> QED BY <1>1, <2>1, <2>2
<1>2. CASE ~ipData.useDerivatives
  <2>1. ASSUME NEW i \in Inputs PROVE Signals!On(i, t) = inputs[i]
    <3>1. signal[i].rate = 0 /\ signal[i].value = inputs[i] /\ inputs[i] \in Int
      BY <1>2
    <3>2. t - signal[i].at \in Int
      OBVIOUS
    <3> QED BY <3>1, <3>2
  <2> QED BY <1>2, <2>1
<1> QED BY <1>1, <1>2

(* A line passes through its value where it begins, and a level one stays. *)
LEMMA LineBegins ==
    ASSUME NEW lines \in Lines, NEW i \in Inputs, NEW t \in Signals!Times, NumbersAre,
           lines[i].at = t \/ lines[i].rate = 0
    PROVE  OnLine(lines, i, t) = lines[i].value
<1>1. lines[i].value \in Int /\ lines[i].rate \in Int /\ t - lines[i].at \in Int
  BY DEF Lines, Signals!Times, NumbersAre
<1>2. CASE lines[i].at = t
  <2>1. t - lines[i].at = 0
    BY <1>2 DEF Signals!Times, NumbersAre
  <2> QED BY <1>1, <2>1 DEF OnLine
<1>3. CASE lines[i].rate = 0
  BY <1>1, <1>3 DEF OnLine
<1> QED BY <1>2, <1>3

(* At a communication point, inputs that agree with the lines are on them. *)
LEMMA OnLinesAtPoint ==
    ASSUME NumbersAre, NEW t \in Signals!Times, NEW ip \in IpDatas, NEW u \in [Inputs -> Int],
           NEW lines \in Lines, Agree(ip, u, lines), LinesBegin(t, ip, u, lines)
    PROVE  \A i \in Inputs : u[i] = OnLine(lines, i, t)
<1> SUFFICES ASSUME NEW i \in Inputs PROVE u[i] = OnLine(lines, i, t)
  OBVIOUS
<1>1. CASE ip.useDerivatives
  <2>1. lines[i] = [at |-> ip.derivativeTime, value |-> ip.inputsT0[i],
                    rate |-> ip.inputDerivatives[i]]
    BY <1>1 DEF Agree
  <2>2. lines[i].at = t /\ lines[i].value = u[i]
    BY <1>1, <2>1 DEF LinesBegin
  <2> QED BY <2>2, LineBegins
<1>2. CASE ~ip.useDerivatives
  <2>1. lines[i].rate = 0 /\ lines[i].value = u[i]
    BY <1>2 DEF Agree
  <2> QED BY <2>1, LineBegins
<1> QED BY <1>1, <1>2

(* A step that ends at a communication point, with nothing evaluated, has  *)
(* only to make the lines agree.                                           *)
LEMMA PointSuffices ==
    ASSUME NumbersAre, SignalsTypes', evaluated' = Signals!Idle,
           Agree(ipData', inputs', signal'), LinesBegin(time', ipData', inputs', signal'),
           SavesAgree'
    PROVE  SignalsInv'
<1>1. \A i \in Inputs : inputs'[i] = OnLine(signal', i, time')
  BY OnLinesAtPoint DEF SignalsTypes
<1>2. \A i \in Inputs : inputs'[i] = Signals!On(i, time)'
  BY <1>1 DEF Signals!On, OnLine
<1>3. evaluated'.by = "none"
  BY DEF Signals!Idle
<1> QED BY <1>2, <1>3 DEF SignalsInv, Followed, Signals!EvaluatedOnSignal,
                          Signals!InputsPutBack

----------------------------------------------------------------------------
(* The master, who names all rates and gives up a step that failed. *)
Orderly == NumbersAre /\ NamesSome = FALSE /\ GoesOnAfterFailure = FALSE

LEMMA SignalsInitFollowed == ASSUME Orderly, Signals!Init PROVE SignalsInv
<1> USE DEF Orderly, NumbersAre
<1>1. SignalsTypes /\ SavesAgree
  BY DEF Signals!Init, SignalsTypes, Signals!Times, Signals!StartInputs,
         Signals!Allocated, IpDatas, Signals!Constant, Lines, SavesAgree
<1>2. /\ Agree(ipData, inputs, signal) /\ LinesBegin(time, ipData, inputs, signal)
      /\ evaluated = Signals!Idle
  BY DEF Signals!Init, Agree, LinesBegin, Signals!Allocated, Signals!Constant,
         Signals!StartInputs
<1>3. \A i \in Inputs : inputs[i] = OnLine(signal, i, time)
  BY <1>1, <1>2, OnLinesAtPoint DEF SignalsTypes
<1>4. evaluated.by = "none"
  BY <1>2 DEF Signals!Idle
<1> QED BY <1>1, <1>2, <1>3, <1>4
        DEF SignalsInv, Followed, Signals!EvaluatedOnSignal, Signals!InputsPutBack,
            Signals!On, OnLine

LEMMA SetRealFollowed ==
    ASSUME Orderly, SignalsInv, NEW i \in Inputs, NEW v \in Values, Signals!SetReal(i, v)
    PROVE  SignalsInv'
<1> USE DEF Orderly, NumbersAre
<1>1. /\ stepping = "no" /\ evaluated' = Signals!Idle
      /\ Agree(ipData, inputs, signal) /\ LinesBegin(time, ipData, inputs, signal)
  BY DEF Signals!SetReal, Signals!AtPoint, SignalsInv, Followed
<1>2. SignalsTypes'
  BY DEF Signals!SetReal, Signals!Synced, SignalsInv, SignalsTypes, IpDatas, Lines
<1>3. Agree(ipData', inputs', signal') /\ LinesBegin(time', ipData', inputs', signal')
  BY <1>1 DEF Signals!SetReal, Signals!Synced, SignalsInv, SignalsTypes, IpDatas,
              Lines, Agree, LinesBegin
<1>4. SavesAgree'
  BY DEF Signals!SetReal, SignalsInv, Followed, SavesAgree
<1> QED BY <1>1, <1>2, <1>3, <1>4, PointSuffices

LEMMA SetRatesFollowed ==
    ASSUME Orderly, SignalsInv, NEW vr \in SUBSET Inputs, NEW rate \in Rates,
           Signals!SetRealInputDerivatives(vr, rate)
    PROVE  SignalsInv'
<1> USE DEF Orderly, NumbersAre
<1>1. vr = Inputs /\ evaluated' = Signals!Idle
  BY DEF Signals!SetRealInputDerivatives, Signals!AtPoint, SignalsInv, Followed
<1>2. SignalsTypes'
  BY DEF Signals!SetRealInputDerivatives, SignalsInv, SignalsTypes, IpDatas, Lines
<1>3. Agree(ipData', inputs', signal') /\ LinesBegin(time', ipData', inputs', signal')
  BY <1>1 DEF Signals!SetRealInputDerivatives, SignalsInv, SignalsTypes, Agree,
              LinesBegin
<1>4. SavesAgree'
  BY DEF Signals!SetRealInputDerivatives, SignalsInv, Followed, SavesAgree
<1> QED BY <1>1, <1>2, <1>3, <1>4, PointSuffices

LEMMA ResetFollowed == ASSUME Orderly, SignalsInv, Signals!Reset PROVE SignalsInv'
<1> USE DEF Orderly, NumbersAre
<1>1. SignalsTypes'
  BY DEF Signals!Reset, SignalsInv, SignalsTypes, Signals!Times, Signals!StartInputs,
         Signals!Constant, Lines
<1>2. ~ipData'.useDerivatives /\ evaluated' = Signals!Idle
  BY DEF Signals!Reset
<1>3. Agree(ipData', inputs', signal') /\ LinesBegin(time', ipData', inputs', signal')
  BY <1>2 DEF Signals!Reset, Agree, LinesBegin, Signals!Constant, Signals!StartInputs
<1>4. SavesAgree'
  BY DEF Signals!Reset, SignalsInv, Followed, SavesAgree
<1> QED BY <1>1, <1>2, <1>3, <1>4, PointSuffices

LEMMA GetFMUstateFollowed == ASSUME Orderly, SignalsInv, Signals!GetFMUstate PROVE SignalsInv'
<1>1. SignalsTypes'
  BY DEF Signals!GetFMUstate, SignalsInv, SignalsTypes, Saves
<1>2. SavesAgree'
  BY DEF Signals!GetFMUstate, SignalsInv, Followed, SavesAgree
<1> QED BY <1>1, <1>2
        DEF Signals!GetFMUstate, SignalsInv, Followed, Signals!EvaluatedOnSignal,
            Signals!InputsPutBack, Signals!On

LEMMA SetFMUstateFollowed == ASSUME Orderly, SignalsInv, Signals!SetFMUstate PROVE SignalsInv'
<1>1. PICK s \in saved : /\ time' = s.time /\ inputs' = s.inputs /\ signal' = s.signal
                         /\ ipData' = Signals!Cloned(ipData, s.ipData)
  BY DEF Signals!SetFMUstate
<1>2. s \in Saves /\ saved' = saved /\ evaluated' = Signals!Idle
  BY DEF Signals!SetFMUstate, SignalsInv, SignalsTypes
<1>3. Agree(s.ipData, s.inputs, s.signal) /\ LinesBegin(s.time, s.ipData, s.inputs, s.signal)
  BY DEF SignalsInv, Followed, SavesAgree
<1>4. SignalsTypes'
  BY <1>1, <1>2 DEF SignalsInv, SignalsTypes, Saves, IpDatas, Signals!Cloned
<1>5. Agree(ipData', inputs', signal') /\ LinesBegin(time', ipData', inputs', signal')
  <2>1. CASE s.ipData.useDerivatives
    BY <1>1, <1>3, <2>1 DEF Signals!Cloned
  <2>2. CASE ~s.ipData.useDerivatives
    <3>1. ipData'.useDerivatives = FALSE
      BY <1>1, <2>2 DEF Signals!Cloned, SignalsInv, SignalsTypes, IpDatas
    <3> QED BY <1>1, <1>3, <2>2, <3>1 DEF Agree, LinesBegin
  <2> QED BY <2>1, <2>2
<1>6. SavesAgree'
  BY <1>2 DEF SignalsInv, Followed, SavesAgree
<1> QED BY <1>2, <1>4, <1>5, <1>6, PointSuffices DEF Orderly

----------------------------------------------------------------------------
(* The step. *)
LEMMA DoStepFollowed ==
    ASSUME Orderly, SignalsInv, NEW h \in 1 .. Horizon, Signals!DoStep(h)
    PROVE  SignalsInv'
<1>1. SignalsTypes' /\ SavesAgree'
  BY DEF Signals!DoStep, SignalsInv, SignalsTypes, Followed, SavesAgree
<1>2. stepping = "no" /\ stepping' = "yes" /\ evaluated = Signals!Idle
      /\ evaluated' = Signals!Idle
  BY DEF Signals!DoStep, Signals!AtPoint, SignalsInv, Followed, Orderly
<1> QED BY <1>1, <1>2 DEF Signals!DoStep, SignalsInv, Followed,
                          Signals!EvaluatedOnSignal, Signals!InputsPutBack, Signals!On

(* An evaluation that moves the inputs to a time and then leaves them at   *)
(* the time of the instance leaves the invariant.                          *)
LEMMA MovedFollowed ==
    ASSUME Orderly, SignalsInv, NEW t \in Signals!Times, time' \in Signals!Times,
           stepping' = "yes",
           evaluated'.by # "event", evaluated'.at = t,
           evaluated'.inputs = Signals!Extrapolated(t), inputs' = Signals!Extrapolated(time'),
           UNCHANGED <<ipData, signal, saved>>
    PROVE  SignalsInv'
<1> USE DEF Orderly
<1>1. SignalsTypes /\ Agree(ipData, inputs, signal)
  BY DEF SignalsInv, Followed
<1>2. /\ inputs' \in [Inputs -> Int]
      /\ \A i \in Inputs : inputs'[i] = Signals!On(i, time')
      /\ ~ipData.useDerivatives => inputs' = inputs
  BY <1>1, ExtrapolatedOnLines
<1>3. \A i \in Inputs : evaluated'.inputs[i] = Signals!On(i, t)
  BY <1>1, ExtrapolatedOnLines
<1>4. SignalsTypes' /\ SavesAgree'
  BY <1>2 DEF SignalsInv, SignalsTypes, Followed, SavesAgree
<1>5. Agree(ipData', inputs', signal')
  BY <1>1, <1>2 DEF Agree, SignalsTypes, IpDatas
<1>6. Signals!EvaluatedOnSignal' /\ Signals!InputsPutBack'
  BY <1>2, <1>3 DEF Signals!EvaluatedOnSignal, Signals!InputsPutBack, Signals!On
<1> QED BY <1>4, <1>5, <1>6 DEF SignalsInv, Followed

LEMMA CallbackFollowed ==
    ASSUME Orderly, SignalsInv, NEW t \in Signals!Times, Signals!Callback(t) PROVE SignalsInv'
<1>1. time' \in Signals!Times /\ stepping' = "yes"
  BY DEF Signals!Callback, SignalsInv, SignalsTypes
<1>2. /\ evaluated'.by # "event" /\ evaluated'.at = t
      /\ evaluated'.inputs = Signals!Extrapolated(t) /\ inputs' = Signals!Extrapolated(time')
  BY DEF Signals!Callback, Signals!PutBack, Signals!Extrapolated
<1> QED BY <1>1, <1>2, MovedFollowed DEF Signals!Callback

LEMMA ArriveFollowed ==
    ASSUME Orderly, SignalsInv, NEW t \in Signals!Times, Signals!Arrive(t) PROVE SignalsInv'
<1>1. time' \in Signals!Times /\ stepping' = "yes"
  BY DEF Signals!Arrive
<1>2. /\ evaluated'.by # "event" /\ evaluated'.at = t
      /\ evaluated'.inputs = Signals!Extrapolated(t) /\ inputs' = Signals!Extrapolated(time')
  BY DEF Signals!Arrive
<1> QED BY <1>1, <1>2, MovedFollowed DEF Signals!Arrive

LEMMA StateEventFollowed ==
    ASSUME Orderly, SignalsInv, NEW t \in Signals!Times, Signals!StateEvent(t) PROVE SignalsInv'
<1>1. evaluated'.by = "event" /\ stepping' = "yes"
  BY DEF Signals!StateEvent
<1>2. SignalsTypes' /\ SavesAgree'
  BY DEF Signals!StateEvent, SignalsInv, SignalsTypes, Followed, SavesAgree
<1>3. Agree(ipData', inputs', signal')
  BY DEF Signals!StateEvent, SignalsInv, Followed
<1> QED BY <1>1, <1>2, <1>3 DEF SignalsInv, Followed, Signals!EvaluatedOnSignal,
                                Signals!InputsPutBack

LEMMA StepDoneFollowed == ASSUME Orderly, SignalsInv, Signals!StepDone PROVE SignalsInv'
<1> USE DEF Orderly, NumbersAre
<1>1. \A i \in Inputs : inputs[i] = Signals!On(i, time)
  BY DEF Signals!StepDone, SignalsInv, Followed, Signals!InputsPutBack
<1>2. signal' = [i \in Inputs |-> [at |-> time, value |-> inputs[i], rate |-> 0]]
  BY <1>1 DEF Signals!StepDone, Signals!Constant
<1>3. SignalsTypes'
  <2>1. inputs \in [Inputs -> Int] /\ time \in Signals!Times
    BY DEF SignalsInv, SignalsTypes
  <2>2. signal' \in Lines
    BY <1>2, <2>1 DEF Lines
  <2> QED BY <2>2 DEF Signals!StepDone, SignalsInv, SignalsTypes, IpDatas
<1>4. ipData'.useDerivatives = FALSE /\ evaluated' = Signals!Idle
  BY DEF Signals!StepDone, SignalsInv, SignalsTypes, IpDatas
<1>5. Agree(ipData', inputs', signal') /\ LinesBegin(time', ipData', inputs', signal')
  BY <1>2, <1>4 DEF Signals!StepDone, Agree, LinesBegin
<1>6. SavesAgree'
  BY DEF Signals!StepDone, SignalsInv, Followed, SavesAgree
<1> QED BY <1>3, <1>4, <1>5, <1>6, PointSuffices

LEMMA StepFailsFollowed == ASSUME Orderly, SignalsInv, Signals!StepFails PROVE SignalsInv'
<1>1. SignalsTypes' /\ SavesAgree' /\ stepping' = "failed"
  BY DEF Signals!StepFails, SignalsInv, SignalsTypes, Followed, SavesAgree
<1> QED BY <1>1 DEF Signals!StepFails, SignalsInv, Followed, Signals!EvaluatedOnSignal,
                    Signals!InputsPutBack, Signals!On

LEMMA SignalsNextFollowed ==
    ASSUME Orderly, SignalsInv, [Signals!Next]_(Signals!vars) PROVE SignalsInv'
<1>1. ASSUME NEW i \in Inputs, NEW v \in Values, Signals!SetReal(i, v) PROVE SignalsInv'
  BY <1>1, SetRealFollowed
<1>2. ASSUME NEW vr \in SUBSET Inputs, NEW rate \in Rates,
             Signals!SetRealInputDerivatives(vr, rate)
      PROVE  SignalsInv'
  BY <1>2, SetRatesFollowed
<1>3. CASE Signals!Reset
  BY <1>3, ResetFollowed
<1>4. CASE Signals!GetFMUstate
  BY <1>4, GetFMUstateFollowed
<1>5. CASE Signals!SetFMUstate
  BY <1>5, SetFMUstateFollowed
<1>6. ASSUME NEW h \in 1 .. Horizon, Signals!DoStep(h) PROVE SignalsInv'
  BY <1>6, DoStepFollowed
<1>7. ASSUME NEW t \in Signals!Times, Signals!Callback(t) PROVE SignalsInv'
  BY <1>7, CallbackFollowed
<1>8. ASSUME NEW t \in Signals!Times, Signals!StateEvent(t) PROVE SignalsInv'
  BY <1>8, StateEventFollowed
<1>9. ASSUME NEW t \in Signals!Times, Signals!Arrive(t) PROVE SignalsInv'
  BY <1>9, ArriveFollowed
<1>10. CASE Signals!StepDone
  BY <1>10, StepDoneFollowed
<1>11. CASE Signals!StepFails
  BY <1>11, StepFailsFollowed
<1>12. CASE UNCHANGED Signals!vars
  BY <1>12 DEF Signals!vars, SignalsInv, SignalsTypes, Followed, SavesAgree,
               Signals!EvaluatedOnSignal, Signals!InputsPutBack, Signals!On
<1> QED BY <1>1, <1>2, <1>3, <1>4, <1>5, <1>6, <1>7, <1>8, <1>9, <1>10, <1>11, <1>12
           DEF Signals!Next

(* The types of the step, for a master of either kind. *)
LEMMA SignalsInitTyped == ASSUME Orderly, Signals!Init PROVE Signals!TypeOK
<1>1. SignalsTypes
  BY SignalsInitFollowed DEF SignalsInv
<1> QED BY <1>1 DEF Signals!Init, SignalsTypes, IpDatas, Lines, Signals!TypeOK, Signals!Idle

LEMMA SignalsNextTyped ==
    ASSUME Orderly, SignalsInv, Signals!TypeOK, [Signals!Next]_(Signals!vars)
    PROVE  Signals!TypeOK'
<1>1. SignalsTypes'
  BY SignalsNextFollowed DEF SignalsInv
<1>2. /\ end \in Signals!Times /\ stepping \in {"no", "yes", "failed"}
      /\ evaluated.by \in {"none", "callback", "event", "arrival"}
      /\ time \in Signals!Times
  BY DEF Signals!TypeOK
<1>3. ASSUME NEW h \in 1 .. Horizon, Signals!DoStep(h)
      PROVE  end' \in Signals!Times
  BY <1>2, <1>3 DEF Signals!DoStep, Signals!Times, Orderly, NumbersAre
<1>4. end' \in Signals!Times
  BY <1>2, <1>3 DEF Signals!Next, Signals!vars, Signals!SetReal, Signals!SetRealInputDerivatives,
       Signals!Reset, Signals!GetFMUstate, Signals!SetFMUstate, Signals!Callback,
       Signals!StateEvent, Signals!Arrive, Signals!StepDone, Signals!StepFails
<1>5. stepping' \in {"no", "yes", "failed"}
  BY <1>2 DEF Signals!Next, Signals!vars, Signals!SetReal, Signals!SetRealInputDerivatives,
       Signals!Reset, Signals!GetFMUstate, Signals!SetFMUstate, Signals!DoStep,
       Signals!Callback, Signals!StateEvent, Signals!Arrive, Signals!StepDone,
       Signals!StepFails
<1>6. evaluated'.by \in {"none", "callback", "event", "arrival"}
  BY <1>2 DEF Signals!Next, Signals!vars, Signals!SetReal, Signals!SetRealInputDerivatives,
       Signals!Reset, Signals!GetFMUstate, Signals!SetFMUstate, Signals!DoStep,
       Signals!Callback, Signals!StateEvent, Signals!Arrive, Signals!StepDone,
       Signals!StepFails, Signals!Idle
<1> QED BY <1>1, <1>4, <1>5, <1>6 DEF SignalsTypes, IpDatas, Lines, Signals!TypeOK

(* Every evaluation of a step, but for those of state events, is made with *)
(* the inputs on the lines the master stated, at its own time, and puts    *)
(* them back on the lines at the time of the instance: through the         *)
(* callbacks of the solver, after failures, resets and restored states.    *)
THEOREM SignalsAreFollowed ==
    ASSUME Orderly PROVE Signals!Spec => [](Signals!EvaluatedOnSignal /\ Signals!InputsPutBack)
<1>1. Signals!Init => SignalsInv
  BY SignalsInitFollowed
<1>2. SignalsInv /\ [Signals!Next]_(Signals!vars) => SignalsInv'
  BY SignalsNextFollowed
<1>3. SignalsInv => Signals!EvaluatedOnSignal /\ Signals!InputsPutBack
  BY DEF SignalsInv, Followed
<1> QED BY <1>1, <1>2, <1>3, PTL DEF Signals!Spec

----------------------------------------------------------------------------
(* fmi2GetDirectionalDerivative, for finitely many known variables, of     *)
(* which one is asked for at a time, and at most one output; the master    *)
(* has had the derivatives evaluated before, saves no state right after a  *)
(* call, and one of the two evaluations of a difference succeeds.          *)
OneKnown ==
    /\ IsFiniteSet(Knowns) /\ NY = 1 /\ MaxKnowns = 1
    /\ EvaluatesFirst = TRUE /\ SavesComputed = FALSE /\ MayFailTwice = FALSE

(* The results up to a demand are those of an evaluation with the values. *)
AreOf(held, at, c) ==
    \A r \in Directional!Results : Directional!Demand(r) <= c => held[r] = [of |-> r, at |-> at]

AtRest(at) == \A j \in Knowns : at[j].by = 0

DirectionalTypes ==
    /\ Directional!TypeOK /\ cg \in Directional!Groupings
    /\ AtRest(value)
    /\ inJacobian <=> pc = "groups"

(* An FMU state is saved with the flag that has the columns dropped. *)
SavesRecompute ==
    \A s \in saved :
        /\ s.value \in Directional!Points /\ AtRest(s.value)
        /\ s.result \in [Directional!Results -> Directional!Held] /\ s.icall \in 0 .. 2
        /\ s.recalJacobian = TRUE
        /\ AreOf(s.result, s.value, s.icall)

(* While groups are computed, the instance is as the call found it. *)
Computing ==
    pc = "groups" =>
        /\ value = jacV /\ result = jacZ /\ AreOf(result, value, 2)
        /\ ~recalJacobian /\ answer = "none" /\ cg # {}
        /\ \E j \in Knowns : asked = {j} /\ updatedJacobian[j] \in {1, 2}

(* Unless they are to be dropped, the columns that are kept are of the     *)
(* present values.                                                         *)
KeptArePresent ==
    ~recalJacobian => \A j \in Knowns : updatedJacobian[j] = 2 => jac[j] = {value}

DirectionalInv ==
    /\ DirectionalTypes /\ SavesRecompute /\ Computing /\ KeptArePresent
    /\ AreOf(result, value, icall)

LEMMA DemandIs ==
    \A r \in Directional!Results : Directional!Demand(r) \in {1, 2}
BY DEF Directional!Demand

(* What an evaluation leaves. *)
LEMMA FreshIs ==
    ASSUME NEW at \in Directional!Points
    PROVE  /\ Directional!Fresh(at) \in [Directional!Results -> Directional!Held]
           /\ \A c : AreOf(Directional!Fresh(at), at, c)
BY DEF Directional!Fresh, Directional!Held, AreOf

LEMMA DisplacedIs ==
    ASSUME NEW at \in Directional!Points, NEW ks \in SUBSET Knowns, NEW by \in {-1, 0, 1}
    PROVE  /\ Directional!Displaced(at, ks, by) \in Directional!Points
           /\ \A j \in Knowns : Directional!Displaced(at, ks, by)[j] =
                 IF j \in ks THEN [of |-> at[j].of, by |-> by] ELSE at[j]
<1>1. \A j \in Knowns : at[j] \in Directional!Positions
  BY DEF Directional!Points
<1>2. \A j \in Knowns : /\ [at[j] EXCEPT !.by = by] \in Directional!Positions
                        /\ [at[j] EXCEPT !.by = by] = [of |-> at[j].of, by |-> by]
  BY <1>1 DEF Directional!Positions
<1> QED BY <1>1, <1>2 DEF Directional!Displaced, Directional!Points

LEMMA DirectionalInitRight == ASSUME OneKnown, Directional!Init PROVE DirectionalInv
<1>1. value \in Directional!Points /\ jacV \in Directional!Points
      /\ result = Directional!Fresh(value) /\ jacZ = Directional!Fresh(value)
      /\ AtRest(value)
  BY DEF Directional!Init, Directional!Start, Directional!Points, Directional!Positions, AtRest
<1>2. Directional!TypeOK /\ cg \in Directional!Groupings
  <2>1. cg \in Directional!Groupings /\ cg \in SUBSET (SUBSET Knowns)
    BY DEF Directional!Init, Directional!Groupings
  <2>2. /\ result \in [Directional!Results -> Directional!Held]
        /\ jacZ \in [Directional!Results -> Directional!Held]
    BY <1>1, FreshIs
  <2>3. jac \in [Knowns -> SUBSET Directional!Points]
    <3>1. jac = [j \in Knowns |-> {}]
      BY DEF Directional!Init
    <3>2. {} \in SUBSET Directional!Points
      OBVIOUS
    <3> QED BY <3>1, <3>2, Zenon
  <2>4. updatedJacobian \in [Knowns -> 0 .. 2] /\ icall \in 0 .. 2
    BY DEF Directional!Init
  <2>5. /\ recalJacobian \in BOOLEAN /\ inJacobian \in BOOLEAN /\ pc \in {"idle", "groups"}
        /\ answer \in {"ok", "discard", "none"} /\ asked \subseteq Knowns
    BY DEF Directional!Init
  <2> QED BY <1>1, <2>1, <2>2, <2>3, <2>4, <2>5 DEF Directional!TypeOK
<1>3. AreOf(result, value, icall)
  BY <1>1, FreshIs
<1> QED BY <1>1, <1>2, <1>3 DEF Directional!Init, DirectionalInv, DirectionalTypes,
             SavesRecompute, Computing, KeptArePresent

LEMMA SetValueRight ==
    ASSUME OneKnown, DirectionalInv, NEW j \in Knowns, Directional!SetReal(j)
    PROVE  DirectionalInv'
<1> USE DEF Directional!SetReal, Directional!Modified, Directional!keptVars, Directional!callVars
<1>1. value \in Directional!Points /\ value[j] \in Directional!Positions
  BY DEF DirectionalInv, DirectionalTypes, Directional!TypeOK, Directional!Points
<1>2. value' \in Directional!Points /\ AtRest(value)'
  <2>1. 1 - value[j].of \in {0, 1}
    BY <1>1 DEF Directional!Positions
  <2>2. value' = [value EXCEPT ![j] = [@ EXCEPT !.of = 1 - value[j].of]]
    OBVIOUS
  <2>3. [value[j] EXCEPT !.of = 1 - value[j].of] \in Directional!Positions
        /\ [value[j] EXCEPT !.of = 1 - value[j].of].by = value[j].by
    BY <1>1, <2>1 DEF Directional!Positions
  <2>4. value' \in Directional!Points
    BY <1>1, <2>2, <2>3 DEF Directional!Points
  <2>5. ASSUME NEW l \in Knowns PROVE value'[l].by = 0
    <3>1. value[l].by = 0 /\ value[j].by = 0
      BY DEF DirectionalInv, DirectionalTypes, AtRest
    <3>2. value'[l] = IF l = j THEN [value[j] EXCEPT !.of = 1 - value[j].of] ELSE value[l]
      BY <1>1, <2>2 DEF Directional!Points
    <3> QED BY <2>3, <3>1, <3>2
  <2> QED BY <2>4, <2>5 DEF AtRest
<1>3. AreOf(result, value, icall)'
  BY DemandIs DEF AreOf
<1>4. DirectionalTypes'
  BY <1>2 DEF DirectionalInv, DirectionalTypes, Directional!TypeOK
<1> QED BY <1>3, <1>4 DEF DirectionalInv, SavesRecompute, Computing, KeptArePresent

LEMMA GetResultRight ==
    ASSUME OneKnown, DirectionalInv, NEW r \in Directional!Results, Directional!GetReal(r)
    PROVE  DirectionalInv'
<1> USE DEF Directional!GetReal, Directional!keptVars, Directional!callVars
<1>1. /\ value \in Directional!Points /\ icall \in 0 .. 2
      /\ result \in [Directional!Results -> Directional!Held]
  BY DEF DirectionalInv, DirectionalTypes, Directional!TypeOK
<1>2. icall' \in {1, 2}
  BY DemandIs
<1>3. \A s \in Directional!Results :
          result'[s] = IF icall < Directional!Demand(s) /\ Directional!Demand(s) <= icall'
                       THEN [of |-> s, at |-> value] ELSE result[s]
  BY DEF Directional!Evaluated
<1>4. result' \in [Directional!Results -> Directional!Held]
  BY <1>1 DEF Directional!Evaluated, Directional!Held
<1>5. AreOf(result, value, icall)'
  <2> SUFFICES ASSUME NEW s \in Directional!Results, Directional!Demand(s) <= icall'
               PROVE  result'[s] = [of |-> s, at |-> value]
    BY DEF AreOf
  <2>1. Directional!Demand(s) <= icall => result[s] = [of |-> s, at |-> value]
    BY DEF DirectionalInv, AreOf
  <2>2. Directional!Demand(s) \in {1, 2}
    BY DemandIs
  <2> QED BY <1>1, <1>3, <2>1, <2>2
<1>6. DirectionalTypes'
  BY <1>2, <1>4 DEF DirectionalInv, DirectionalTypes, Directional!TypeOK
<1> QED BY <1>5, <1>6 DEF DirectionalInv, SavesRecompute, Computing, KeptArePresent

LEMMA SaveRight ==
    ASSUME OneKnown, DirectionalInv, Directional!GetFMUstate
    PROVE  DirectionalInv'
<1> USE DEF Directional!GetFMUstate, Directional!instanceVars, Directional!keptVars,
            Directional!callVars
<1>1. recalJacobian = TRUE
  BY DEF OneKnown, DirectionalInv, DirectionalTypes, Directional!TypeOK
<1>2. SavesRecompute'
  <2>1. /\ value \in Directional!Points /\ AtRest(value) /\ icall \in 0 .. 2
        /\ result \in [Directional!Results -> Directional!Held]
        /\ AreOf(result, value, icall)
    BY DEF DirectionalInv, DirectionalTypes, Directional!TypeOK
  <2>2. saved' = {[value |-> value, result |-> result, icall |-> icall,
                   recalJacobian |-> recalJacobian]}
    OBVIOUS
  <2> SUFFICES ASSUME NEW s \in saved'
               PROVE  /\ s.value \in Directional!Points /\ AtRest(s.value)
                      /\ s.result \in [Directional!Results -> Directional!Held]
                      /\ s.icall \in 0 .. 2 /\ s.recalJacobian = TRUE
                      /\ AreOf(s.result, s.value, s.icall)
    BY DEF SavesRecompute, AtRest, AreOf
  <2>3. s.value = value /\ s.result = result /\ s.icall = icall
        /\ s.recalJacobian = recalJacobian
    BY <2>2
  <2> QED BY <1>1, <2>1, <2>3
<1>3. DirectionalTypes'
  BY DEF DirectionalInv, DirectionalTypes, Directional!TypeOK, AtRest
<1>4. AreOf(result, value, icall)'
  BY DEF DirectionalInv, AreOf
<1> QED BY <1>2, <1>3, <1>4 DEF DirectionalInv, Computing, KeptArePresent, AreOf

LEMMA RestoreRight ==
    ASSUME OneKnown, DirectionalInv, Directional!SetFMUstate
    PROVE  DirectionalInv'
<1> USE DEF Directional!SetFMUstate, Directional!keptVars, Directional!callVars
<1>1. PICK s \in saved : /\ value' = s.value /\ result' = s.result /\ icall' = s.icall
                         /\ recalJacobian' = s.recalJacobian
  OBVIOUS
<1>2. /\ s.value \in Directional!Points /\ AtRest(s.value)
      /\ s.result \in [Directional!Results -> Directional!Held] /\ s.icall \in 0 .. 2
      /\ s.recalJacobian = TRUE /\ AreOf(s.result, s.value, s.icall)
  BY DEF DirectionalInv, SavesRecompute
<1>3. DirectionalTypes'
  BY <1>1, <1>2 DEF DirectionalInv, DirectionalTypes, Directional!TypeOK, AtRest
<1>4. AreOf(result, value, icall)'
  BY <1>1, <1>2 DEF AreOf
<1> QED BY <1>1, <1>2, <1>3, <1>4 DEF DirectionalInv, SavesRecompute, Computing, KeptArePresent

(* A call drops what is not of the present values, and marks its column. *)
LEMMA AskRight ==
    ASSUME OneKnown, DirectionalInv, NEW j \in Knowns, Directional!AskByGroups(j)
    PROVE  DirectionalInv'
<1> DEFINE kept == IF Directional!Outdated THEN [l \in Knowns |-> 0] ELSE updatedJacobian
<1>1. /\ pc' = "groups" /\ inJacobian' = TRUE /\ asked' = {j} /\ answer' = "none"
      /\ recalJacobian' = FALSE /\ jacV' = value /\ jacZ' = result /\ cg # {}
      /\ updatedJacobian' = [kept EXCEPT ![j] = IF @ = 0 THEN 1 ELSE @]
      /\ UNCHANGED <<cg, value, result, icall, jac, saved>>
  BY DEF Directional!AskByGroups
<1>2. icall = 2
  BY DEF Directional!AskByGroups, OneKnown
<1>3. updatedJacobian \in [Knowns -> 0 .. 2] /\ recalJacobian \in BOOLEAN
      /\ jac \in [Knowns -> SUBSET Directional!Points]
      /\ result \in [Directional!Results -> Directional!Held]
      /\ value \in Directional!Points
  BY DEF DirectionalInv, DirectionalTypes, Directional!TypeOK
<1>4. /\ kept \in [Knowns -> 0 .. 2]
      /\ \A l \in Knowns : kept[l] = 2 => jac[l] = {value}
  <2>1. CASE Directional!Outdated
    BY <2>1
  <2>2. CASE ~Directional!Outdated
    BY <1>3, <2>2 DEF Directional!Outdated, DirectionalInv, KeptArePresent
  <2> QED BY <2>1, <2>2
<1> HIDE DEF kept
<1>5. /\ updatedJacobian' \in [Knowns -> 0 .. 2] /\ updatedJacobian'[j] \in {1, 2}
      /\ \A l \in Knowns : updatedJacobian'[l] = 2 => kept[l] = 2
  BY <1>1, <1>4
<1>6. DirectionalTypes'
  BY <1>1, <1>3, <1>5 DEF DirectionalInv, DirectionalTypes, Directional!TypeOK, AtRest
<1>7. AreOf(result, value, 2)' /\ AreOf(result, value, icall)'
  BY <1>1, <1>2 DEF DirectionalInv, AreOf
<1>8. Computing'
  BY <1>1, <1>5, <1>7 DEF Computing
<1>9. KeptArePresent'
  BY <1>1, <1>4, <1>5 DEF KeptArePresent
<1>10. SavesRecompute'
  BY <1>1 DEF DirectionalInv, SavesRecompute
<1> QED BY <1>6, <1>7, <1>8, <1>9, <1>10 DEF DirectionalInv

(* With one output the results are put back as they were. *)
LEMMA ResultsAreReset ==
    ASSUME OneKnown, jacZ \in [Directional!Results -> Directional!Held], NEW held
    PROVE  Directional!ResultsReset(held) = jacZ
<1>1. \A r \in Directional!Results : r \in Derivatives \/ r = 1
  BY DEF OneKnown, Directional!Results, Directional!Outputs
<1>2. Directional!ResultsReset(held) = [r \in Directional!Results |-> jacZ[r]]
  BY <1>1 DEF Directional!ResultsReset, OneKnown
<1> QED BY <1>2

(* A one-sided difference is one around the values, too. *)
LEMMA DifferenceIsRight ==
    ASSUME OneKnown, jacV \in Directional!Points, AtRest(jacV), AreOf(jacZ, jacV, 2),
           NEW group_ \in SUBSET Knowns, group_ # {},
           NEW failedPos \in BOOLEAN, NEW failedNeg \in BOOLEAN, ~(failedPos /\ failedNeg)
    PROVE  LET plus  == Directional!Fresh(Directional!Displaced(jacV, group_, 1))
               minus == Directional!Fresh(Directional!Displaced(jacV, group_, -1))
           IN  Directional!Difference(group_, Directional!Side(plus, failedPos, jacZ),
                                      Directional!Side(minus, failedNeg, jacZ)) = {jacV}
<1> DEFINE up   == Directional!Displaced(jacV, group_, 1)
           down == Directional!Displaced(jacV, group_, -1)
           plus == Directional!Side(Directional!Fresh(up), failedPos, jacZ)
           minus == Directional!Side(Directional!Fresh(down), failedNeg, jacZ)
<1>1. PICK m \in group_ : m \in Knowns
  OBVIOUS
<1>2. up[m].by = 1 /\ down[m].by = -1 /\ jacV[m].by = 0
  <2>1. up[m] = [of |-> jacV[m].of, by |-> 1] /\ down[m] = [of |-> jacV[m].of, by |-> -1]
    BY <1>1, DisplacedIs
  <2> HIDE DEF up, down
  <2> QED BY <1>1, <2>1 DEF AtRest
<1> HIDE DEF up, down
<1>3. up # down /\ up # jacV /\ down # jacV
  BY <1>2
<1>4. \A r \in Directional!Results : jacZ[r] = [of |-> r, at |-> jacV]
  BY DemandIs DEF AreOf
<1>5. \A r \in Directional!Results :
          /\ failedPos => plus[r] = [of |-> r, at |-> jacV]
          /\ ~failedPos => plus[r] = [of |-> r, at |-> up]
          /\ failedNeg => minus[r] = [of |-> r, at |-> jacV]
          /\ ~failedNeg => minus[r] = [of |-> r, at |-> down]
  BY <1>4 DEF Directional!Side, Directional!Fresh
<1> HIDE DEF plus, minus
<1>6. \A r \in Directional!Results :
          /\ plus[r].of = r /\ minus[r].of = r
          /\ {plus[r].at, minus[r].at} \subseteq {jacV, up, down}
          /\ plus[r].at # minus[r].at
  <2> SUFFICES ASSUME NEW r \in Directional!Results
               PROVE  /\ plus[r].of = r /\ minus[r].of = r
                      /\ {plus[r].at, minus[r].at} \subseteq {jacV, up, down}
                      /\ plus[r].at # minus[r].at
    OBVIOUS
  <2>1. CASE failedPos
    <3>1. plus[r] = [of |-> r, at |-> jacV] /\ minus[r] = [of |-> r, at |-> down]
      BY <1>5, <2>1
    <3> QED BY <1>3, <3>1
  <2>2. CASE failedNeg
    <3>1. plus[r] = [of |-> r, at |-> up] /\ minus[r] = [of |-> r, at |-> jacV]
      BY <1>5, <2>2
    <3> QED BY <1>3, <3>1
  <2>3. CASE ~failedPos /\ ~failedNeg
    <3>1. plus[r] = [of |-> r, at |-> up] /\ minus[r] = [of |-> r, at |-> down]
      BY <1>5, <2>3
    <3> QED BY <1>3, <3>1
  <2> QED BY <2>1, <2>2, <2>3
<1>7. Directional!Difference(group_, plus, minus) = {jacV}
  BY <1>6 DEF Directional!Difference, up, down
<1> QED BY <1>7 DEF plus, minus, up, down

LEMMA ComputeGroupRight ==
    ASSUME OneKnown, DirectionalInv,
           NEW group_ \in cg, NEW failedPos \in BOOLEAN, NEW failedNeg \in BOOLEAN,
           Directional!ComputeGroup(group_, failedPos, failedNeg)
    PROVE  DirectionalInv' /\ answer' = "none"
<1> DEFINE plus  == Directional!Fresh(Directional!Displaced(jacV, group_, 1))
           minus == Directional!Fresh(Directional!Displaced(jacV, group_, -1))
           reset == Directional!ResultsReset(minus)
           made == Directional!Difference(group_, Directional!Side(plus, failedPos, reset),
                                          Directional!Side(minus, failedNeg, reset))
<1>1. /\ pc = "groups" /\ value = jacV /\ result = jacZ /\ AreOf(result, value, 2)
      /\ ~recalJacobian /\ answer = "none"
  BY DEF Directional!ComputeGroup, DirectionalInv, Computing
<1>2. /\ jacV \in Directional!Points /\ jacZ \in [Directional!Results -> Directional!Held]
      /\ updatedJacobian \in [Knowns -> 0 .. 2] /\ jac \in [Knowns -> SUBSET Directional!Points]
      /\ AtRest(jacV) /\ group_ \in SUBSET Knowns /\ group_ # {}
  BY <1>1 DEF DirectionalInv, DirectionalTypes, Directional!TypeOK, Directional!Groupings
<1>3. ~(failedPos /\ failedNeg)
  BY DEF Directional!ComputeGroup, OneKnown
<1>4. reset = jacZ
  BY <1>2, ResultsAreReset
<1>5. /\ value' = jacV /\ icall' \in {1, 2} /\ result' = reset
      /\ jac' = [j \in Knowns |-> IF j \in group_ THEN made ELSE jac[j]]
      /\ updatedJacobian' = [j \in Knowns |-> IF j \in group_ THEN 2 ELSE updatedJacobian[j]]
      /\ UNCHANGED <<pc, inJacobian, answer, cg, recalJacobian, jacV, jacZ, asked, saved>>
  BY <1>3 DEF Directional!ComputeGroup
<1>6. made = {jacV}
  BY <1>1, <1>2, <1>3, <1>4, DifferenceIsRight
<1> HIDE DEF plus, minus, reset, made
<1>7. /\ jac' \in [Knowns -> SUBSET Directional!Points]
      /\ updatedJacobian' \in [Knowns -> 0 .. 2]
  BY <1>2, <1>5, <1>6
<1>8. DirectionalTypes'
  BY <1>1, <1>2, <1>4, <1>5, <1>7 DEF DirectionalInv, DirectionalTypes, Directional!TypeOK, AtRest
<1>9. AreOf(result, value, 2)' /\ AreOf(result, value, icall)'
  <2>1. \A r \in Directional!Results : jacZ[r] = [of |-> r, at |-> jacV]
    BY <1>1, DemandIs DEF AreOf
  <2> QED BY <1>4, <1>5, <2>1 DEF AreOf
<1>10. Computing'
  <2>1. PICK j \in Knowns : asked = {j} /\ updatedJacobian[j] \in {1, 2}
    BY <1>1 DEF DirectionalInv, Computing
  <2>2. updatedJacobian'[j] \in {1, 2}
    BY <1>5, <2>1
  <2>3. cg # {}
    OBVIOUS
  <2> QED BY <1>1, <1>4, <1>5, <1>9, <2>1, <2>2, <2>3 DEF Computing
<1>11. KeptArePresent'
  BY <1>1, <1>5, <1>6 DEF DirectionalInv, KeptArePresent
<1>12. SavesRecompute'
  BY <1>5 DEF DirectionalInv, SavesRecompute
<1> QED BY <1>1, <1>5, <1>8, <1>9, <1>10, <1>11, <1>12 DEF DirectionalInv

LEMMA GroupsDoneAnswers ==
    ASSUME OneKnown, DirectionalInv, Directional!GroupsDone
    PROVE  /\ DirectionalInv'
           /\ \A j \in asked : jac'[j] = {value'}
<1>1. /\ pc = "groups" /\ pc' = "idle" /\ inJacobian' = FALSE /\ answer' = "ok"
      /\ UNCHANGED <<cg, value, result, icall, recalJacobian, updatedJacobian, jac,
                     jacV, jacZ, asked, saved>>
  BY DEF Directional!GroupsDone, Directional!instanceVars, Directional!keptVars
<1>2. PICK j \in Knowns : asked = {j} /\ updatedJacobian[j] \in {1, 2}
  BY <1>1 DEF DirectionalInv, Computing
<1>3. PICK group_ \in cg : j \in group_
  <2>1. UNION cg = Knowns
    BY <1>1 DEF DirectionalInv, DirectionalTypes, Computing, Directional!Groupings
  <2> QED BY <2>1
<1>4. updatedJacobian[j] = 2
  BY <1>2, <1>3 DEF Directional!GroupsDone, Directional!Wanted
<1>5. jac[j] = {value}
  BY <1>1, <1>4 DEF DirectionalInv, Computing, KeptArePresent
<1>6. DirectionalTypes'
  BY <1>1 DEF DirectionalInv, DirectionalTypes, Directional!TypeOK, AtRest
<1>7. AreOf(result, value, icall)' /\ SavesRecompute' /\ KeptArePresent' /\ Computing'
  BY <1>1 DEF DirectionalInv, AreOf, SavesRecompute, KeptArePresent, Computing
<1> QED BY <1>1, <1>2, <1>5, <1>6, <1>7 DEF DirectionalInv

LEMMA SameCardinalityOfKnowns == \A S : Directional!Cardinality(S) = Cardinality(S)
BY DEF Directional!Cardinality, Cardinality, Directional!IsFiniteSet, IsFiniteSet

(* The one known variable that is displaced is the first, and put back. *)
LEMMA AlongSeedRight ==
    ASSUME OneKnown, DirectionalInv,
           NEW ks \in SUBSET Knowns, NEW first \in Knowns,
           NEW failedPos \in BOOLEAN, NEW failedNeg \in BOOLEAN,
           Directional!AlongSeed(ks, first, failedPos, failedNeg)
    PROVE  DirectionalInv'
<1> DEFINE minus == Directional!Displaced(value, ks, -1)
<1>1. /\ pc = "idle" /\ first \in ks /\ Cardinality(ks) <= 1 /\ jacV' = value /\ asked' = ks
      /\ result' = IF failedNeg THEN result ELSE Directional!Fresh(minus)
      /\ value' = [minus EXCEPT ![first] = value[first]] /\ answer' = "ok"
      /\ icall' = 0 /\ recalJacobian' = TRUE
      /\ UNCHANGED <<cg, updatedJacobian, jac, pc, jacZ, inJacobian, saved>>
  BY SameCardinalityOfKnowns DEF Directional!AlongSeed, Directional!PutBack, Directional!Modified,
       Directional!keptVars, OneKnown
<1>2. value \in Directional!Points /\ result \in [Directional!Results -> Directional!Held]
  BY DEF DirectionalInv, DirectionalTypes, Directional!TypeOK
<1>3. ks = {first}
  <2>1. IsFiniteSet(ks)
    BY FS_Subset DEF OneKnown
  <2>2. Cardinality({first}) = 1 /\ {first} \in SUBSET ks
    BY <1>1, FS_Singleton
  <2>3. Cardinality(ks) \in Nat /\ Cardinality({first}) <= Cardinality(ks)
    BY <2>1, <2>2, FS_Subset, FS_CardinalityType
  <2>4. Cardinality(ks) = Cardinality({first})
    BY <1>1, <2>2, <2>3
  <2> QED BY <2>1, <2>2, <2>4, FS_Subset
<1>4. /\ minus \in Directional!Points
      /\ \A j \in Knowns : minus[j] = IF j \in ks THEN [of |-> value[j].of, by |-> -1] ELSE value[j]
  BY <1>2, DisplacedIs
<1>5. result' \in [Directional!Results -> Directional!Held]
  BY <1>1, <1>2, <1>4, FreshIs
<1> HIDE DEF minus
<1>6. value' = value
  BY <1>1, <1>2, <1>3, <1>4 DEF Directional!Points
<1>7. DirectionalTypes'
  <2>1. asked' \subseteq Knowns /\ value' \in Directional!Points /\ jacV' \in Directional!Points
    BY <1>1, <1>2, <1>6
  <2>2. AtRest(value)'
    BY <1>6 DEF DirectionalInv, DirectionalTypes, AtRest
  <2> QED BY <1>1, <1>5, <2>1, <2>2 DEF DirectionalInv, DirectionalTypes, Directional!TypeOK
<1>8. AreOf(result, value, icall)'
  BY <1>1, DemandIs DEF AreOf
<1> QED BY <1>1, <1>7, <1>8 DEF DirectionalInv, SavesRecompute, Computing, KeptArePresent

LEMMA DirectionalNextRight ==
    ASSUME OneKnown, DirectionalInv, [Directional!Next]_(Directional!vars)
    PROVE  DirectionalInv' /\ Directional!PresentAnswered
<1>1. ASSUME NEW j \in Knowns, Directional!SetReal(j)
      PROVE  DirectionalInv' /\ Directional!PresentAnswered
  BY <1>1, SetValueRight DEF Directional!SetReal, Directional!PresentAnswered
<1>2. ASSUME NEW j \in Knowns, Directional!AskByGroups(j)
      PROVE  DirectionalInv' /\ Directional!PresentAnswered
  BY <1>2, AskRight DEF Directional!AskByGroups, Directional!PresentAnswered
<1>3. ASSUME NEW r \in Directional!Results, Directional!GetReal(r)
      PROVE  DirectionalInv' /\ Directional!PresentAnswered
  BY <1>3, GetResultRight DEF Directional!GetReal, Directional!PresentAnswered
<1>4. CASE Directional!GetFMUstate
  BY <1>4, SaveRight DEF Directional!GetFMUstate, Directional!PresentAnswered
<1>5. CASE Directional!SetFMUstate
  BY <1>5, RestoreRight DEF Directional!SetFMUstate, Directional!PresentAnswered
<1>6. ASSUME NEW group_ \in cg, NEW failedPos \in BOOLEAN, NEW failedNeg \in BOOLEAN,
             Directional!ComputeGroup(group_, failedPos, failedNeg)
      PROVE  DirectionalInv' /\ Directional!PresentAnswered
  BY <1>6, ComputeGroupRight DEF Directional!PresentAnswered
<1>7. CASE Directional!GroupsDone
  BY <1>7, GroupsDoneAnswers DEF Directional!PresentAnswered
<1>8. ASSUME NEW ks \in SUBSET Knowns, NEW first \in Knowns,
             NEW failedPos \in BOOLEAN, NEW failedNeg \in BOOLEAN,
             Directional!AlongSeed(ks, first, failedPos, failedNeg)
      PROVE  DirectionalInv' /\ Directional!PresentAnswered
  BY <1>8, AlongSeedRight DEF Directional!AlongSeed, Directional!PresentAnswered
<1>9. CASE UNCHANGED Directional!vars
  <2>1. UNCHANGED <<cg, value, result, icall, recalJacobian, updatedJacobian, jac, pc, jacV,
                    jacZ, inJacobian, asked, answer, saved>>
    BY <1>9 DEF Directional!vars, Directional!instanceVars, Directional!keptVars,
                Directional!callVars
  <2>2. DirectionalTypes'
    BY <2>1 DEF DirectionalInv, DirectionalTypes, Directional!TypeOK, AtRest
  <2>3. AreOf(result, value, icall)' /\ SavesRecompute' /\ KeptArePresent' /\ Computing'
    BY <2>1 DEF DirectionalInv, AreOf, SavesRecompute, KeptArePresent, Computing
  <2>4. Directional!PresentAnswered
    BY <2>1 DEF DirectionalInv, Computing, Directional!PresentAnswered
  <2> QED BY <2>2, <2>3, <2>4 DEF DirectionalInv
<1> QED BY <1>1, <1>2, <1>3, <1>4, <1>5, <1>6, <1>7, <1>8, <1>9 DEF Directional!Next

----------------------------------------------------------------------------
(* All three. *)
Environment == OneKnown /\ NamesSome = FALSE /\ GoesOnAfterFailure = FALSE

IInv ==
    /\ kind \in {"callback", "directional", "inputs"}
    /\ kind = "callback" => CallbackInv /\ SparseInv /\ Callback!TypeOK
    /\ kind = "directional" => DirectionalInv
    /\ kind = "inputs" => SignalsInv /\ Signals!TypeOK

LEMMA EnvironmentIs == ASSUME Environment PROVE Sized /\ OneKnown /\ Orderly
BY PerturbationAssumption DEF Environment, Sized, Orderly, NumbersAre

LEMMA InitRight == ASSUME Environment, Init PROVE IInv
<1>1. CASE kind = "callback" /\ Callback!Init
  BY <1>1, EnvironmentIs, CallbackInitRight, SparseInitRight, CallbackInitTyped DEF IInv
<1>2. CASE kind = "directional" /\ Directional!Init
  BY <1>2, EnvironmentIs, DirectionalInitRight DEF IInv
<1>3. CASE kind = "inputs" /\ Signals!Init
  BY <1>3, EnvironmentIs, SignalsInitFollowed, SignalsInitTyped DEF IInv
<1> QED BY <1>1, <1>2, <1>3 DEF Init

LEMMA NextRight ==
    ASSUME Environment, IInv, [Next]_vars
    PROVE  IInv' /\ (kind = "directional" => Directional!PresentAnswered)
<1>1. kind' = kind
  BY DEF Next, vars
<1>2. CASE kind = "callback"
  <2>1. [Callback!Next]_(Callback!vars)
    BY <1>2 DEF Next, vars, callbackVars, Callback!vars
  <2> QED BY <1>1, <1>2, <2>1, EnvironmentIs, CallbackNextRight, SparseNextRight,
             CallbackNextTyped DEF IInv
<1>3. CASE kind = "directional"
  <2>1. [Directional!Next]_(Directional!vars)
    BY <1>3 DEF Next, vars, directionalVars, Directional!vars, Directional!instanceVars,
                Directional!keptVars, Directional!callVars
  <2> QED BY <1>1, <1>3, <2>1, EnvironmentIs, DirectionalNextRight DEF IInv
<1>4. CASE kind = "inputs"
  <2>1. [Signals!Next]_(Signals!vars)
    BY <1>4 DEF Next, vars, inputVars, Signals!vars
  <2> QED BY <1>1, <1>4, <2>1, EnvironmentIs, SignalsNextFollowed, SignalsNextTyped DEF IInv
<1> QED BY <1>2, <1>3, <1>4 DEF IInv

(* The variables of the computation are of their types. *)
THEOREM PerturbationTypes == ASSUME Environment PROVE Spec => []TypeOK
<1>1. Init => IInv
  BY InitRight
<1>2. IInv /\ [Next]_vars => IInv'
  BY NextRight
<1>3. IInv => TypeOK
  BY DEF IInv, TypeOK, DirectionalInv, DirectionalTypes
<1> QED BY <1>1, <1>2, <1>3, PTL DEF Spec

(* Whatever fails, and in whichever order a master asks: the callback      *)
(* returns the solver's states as they were, a directional derivative      *)
(* leaves the values, and getters that answer with results of them, and    *)
(* the callbacks leave the inputs on the lines the master stated.          *)
THEOREM InstanceIsLeft == ASSUME Environment PROVE Spec => []LeavesInstance
<1>1. Init => IInv
  BY InitRight
<1>2. IInv /\ [Next]_vars => IInv'
  BY NextRight
<1>3. IInv => LeavesInstance
  <2>1. CallbackInv => Callback!LeavesStates
    BY DEF CallbackInv, CallbackAtRest, Callback!LeavesStates, Callback!Returned
  <2>2. DirectionalInv => Directional!GettersPresent
    BY DEF DirectionalInv, DirectionalTypes, AreOf, AtRest, Directional!GettersPresent,
           Directional!KnownsPutBack, Directional!Undisplaced
  <2>3. SignalsInv => Signals!InputsPutBack
    BY DEF SignalsInv, Followed
  <2> QED BY <2>1, <2>2, <2>3 DEF IInv, LeavesInstance
<1> QED BY <1>1, <1>2, <1>3, PTL DEF Spec

(* What is reported as computed is the Jacobian, for any pattern, any      *)
(* grouping and either form of the matrix; and evaluations see the inputs  *)
(* the master stated.                                                      *)
THEOREM ComputedIsAlwaysRight == ASSUME Environment PROVE Spec => []ComputedIsRight
<1>1. Init => IInv
  BY InitRight
<1>2. IInv /\ [Next]_vars => IInv'
  BY NextRight
<1>3. IInv => ComputedIsRight
  <2>1. CallbackInv /\ SparseInv => Callback!ComputedIsRight
    BY DEF CallbackInv, SparseInv, Callback!ComputedIsRight
  <2>2. SignalsInv => Signals!EvaluatedOnSignal
    BY DEF SignalsInv, Followed
  <2> QED BY <2>1, <2>2 DEF IInv, ComputedIsRight
<1> QED BY <1>1, <1>2, <1>3, PTL DEF Spec

(* A directional derivative that is answered by groups, from columns that  *)
(* were kept or not, is that at the present values.                        *)
THEOREM DerivativeIsOfPresent == ASSUME Environment PROVE Spec => DerivativeIsPresent
<1>1. Init => IInv
  BY InitRight
<1>2. IInv /\ [Next]_vars => IInv' /\ (kind = "directional" => Directional!PresentAnswered)
  BY NextRight
<1>3. IInv /\ [Next]_vars => [kind = "directional" => Directional!PresentAnswered]_vars
  BY <1>2
<1> QED BY <1>1, <1>2, <1>3, PTL DEF Spec, DerivativeIsPresent
=============================================================================
